---------------------------- MODULE Spec2Model ----------------------------
(***************************************************************************)
(* The Kontent.ai migration toolkit: import, export context, transforms.   *)
(*                                                                         *)
(*  SpecWorkflow : one call of setWorkflowOfLanguageVariantAsync, in both  *)
(*                 implementations the repository carries                  *)
(*                 (ImportWorkflowService and ImportWorkflowHelper).       *)
(*  SpecImport   : DefaultImportAdapter.importAsync driving                *)
(*                 ImportContentItemHelper over a target environment.      *)
(*  SpecAsset    : calls of shouldUpdateAsset and shouldReplaceBinaryFile.  *)
(*  SpecTransform: one call of an import or export element transform.      *)
(*  SpecExportContext : ExportContextService.getExportContextAsync from    *)
(*                 the prepared export items to the returned context.      *)
(*  SpecElements : one call of getMigrationElements of the export.        *)
(*  SpecValueToStore : one call of getValueToStoreFromElement.            *)
(*  SpecFlatten  : one call of getContentTypeElements.                    *)
(***************************************************************************)
EXTENDS Integers, Sequences, FiniteSets, TLC

VARIABLES
    \* ---- workflow engine (one call of setWorkflowOfLanguageVariantAsync)
    wfImpl,         \* "service" (ImportWorkflowService) or "helper" (ImportWorkflowHelper)
    workflows,      \* the `workflows` argument: workflows of the target environment
    wfArg,          \* the `workflowCodename` argument
    stepArg,        \* the `workflowStepCodename` argument
    itemStep,       \* migrationItem.system.workflow_step of the item passed in
    variantBefore,  \* [workflow, step] the language variant is in when the call starts
    wpc,            \* position of the call
    wcalls,         \* management API calls issued by the call, in order
    werror,         \* the error the call ended with, or NoError
    \* ---- import run (DefaultImportAdapter.importAsync)
    config,         \* adapter configuration: skipFailedItems, canImport predicates
    sourceData,     \* the ImportData handed to importAsync: items and assets
    dataToImport,   \* what filterDataToImport kept
    targetItems,    \* content items of the target environment, by codename
    targetAssets,   \* assets of the target environment, by codename
    phase,          \* position of importAsync
    assetsPending,  \* indices of dataToImport.assets that importAssetsAsync has still to process
    itemIndex,      \* index, among the regular items, of the item being imported
    itemPc,         \* position of importContentItemAsync within that item
    preparedItems,  \* the preparedItems array of importContentItemsAsync
    importedData,   \* importedData.contentItems: pairs of original and imported item
    variantIndex,   \* index of the item whose language variant is imported next
    calls,          \* management API calls of the current run, in order
    run,            \* number of the import run over the same data (1 = first)
    runError,       \* the error the run ended with, or NoError
    \* ---- asset decision (shouldUpdateAsset, shouldReplaceBinaryFile)
    assetArg,       \* the `migrationAsset` the functions are called with
    targetArg,      \* the `targetAsset` the functions are called with
    returned,       \* what the calls made so far returned, in order
    \* ---- element transforms (importTransforms, exportTransforms)
    importContext,  \* the import context the import transforms read
    importedSoFar,  \* codenames of the items the run has imported before the transform is called
    exportContext,  \* the export context the export transforms read
    transformType,  \* type of the element that is transformed
    elementValue,   \* the value handed to the transform
    transformed,    \* what the transform returned or threw
    warnings,       \* warnings the transform has logged, in order
    tpc,            \* position of the transform call
    \* ---- export context (ExportContextService.getExportContextAsync)
    preparedExportItems,\* contentItem.id of the prepared export items, in order
    referencedData, \* itemIds and assetIds extracted from the prepared items
    viewRequests,   \* view requests by id answered so far: type, id and outcome
    fetchedItems,   \* the contentItems array of getContentItemsByIdsAsync
    fetchedAssets,  \* the assets array of getAssetsByIdsAsync
    itemStates,     \* the itemStates of the export context
    assetStates,    \* the assetStates of the export context
    epc,            \* position of getExportContextAsync
    \* ---- export of the elements of an item (getMigrationElements)
    contentTypeElements,\* contentType.elements of the flattened content type
    variantElements,\* the elements of the language variant or component
    migrationElements,\* what getMigrationElements returned or threw
    mpc,            \* position of the call of getMigrationElements
    \* ---- export of one element value (getValueToStoreFromElement)
    storeTypeElement,\* the element of the flattened content type whose value is exported
    storeExportElement,\* the element of the variant: its value, and whether it can be serialized
    storeContext,   \* the export context handed to the export transform
    valueToStore,   \* what getValueToStoreFromElement returned or threw
    spc,            \* position of the call of getValueToStoreFromElement
    \* ---- flattening of a content type (getContentTypeElements)
    typeElementsArg,\* contentType.elements of the content type that is flattened
    contentTypeSnippets,\* the content type snippets of the environment
    flattened,      \* what getContentTypeElements returned, or that the process exited
    fpc             \* position of the call of getContentTypeElements

wfVars == <<wfImpl, workflows, wfArg, stepArg, itemStep, variantBefore, wpc, wcalls, werror>>

importVars == <<config, sourceData, dataToImport, targetItems, targetAssets, phase,
                assetsPending, itemIndex, itemPc, preparedItems, importedData,
                variantIndex, calls, run, runError>>

assetVars == <<assetArg, targetArg, returned>>

transformVars == <<importContext, importedSoFar, exportContext, transformType, elementValue,
                   transformed, warnings, tpc>>

exportContextVars == <<preparedExportItems, referencedData, viewRequests, fetchedItems,
                       fetchedAssets, itemStates, assetStates, epc>>

elementsVars == <<contentTypeElements, variantElements, migrationElements, mpc>>

valueToStoreVars == <<storeTypeElement, storeExportElement, storeContext, valueToStore, spc>>

flattenVars == <<typeElementsArg, contentTypeSnippets, flattened, fpc>>

vars == <<wfVars, importVars, assetVars, transformVars, exportContextVars, elementsVars,
          valueToStoreVars, flattenVars>>

\* what the actions of one part of the model leave alone
outsideWorkflow == <<importVars, assetVars, transformVars, exportContextVars, elementsVars,
    valueToStoreVars, flattenVars>>

outsideImport == <<wfVars, assetVars, transformVars, exportContextVars, elementsVars,
    valueToStoreVars, flattenVars>>

outsideAsset == <<wfVars, importVars, transformVars, exportContextVars, elementsVars,
    valueToStoreVars, flattenVars>>

outsideTransform == <<wfVars, importVars, assetVars, exportContextVars, elementsVars,
    valueToStoreVars, flattenVars>>

outsideExportContext == <<wfVars, importVars, assetVars, transformVars, elementsVars,
    valueToStoreVars, flattenVars>>

outsideElements == <<wfVars, importVars, assetVars, transformVars, exportContextVars,
    valueToStoreVars, flattenVars>>

outsideValueToStore == <<wfVars, importVars, assetVars, transformVars, exportContextVars,
    elementsVars, flattenVars>>

outsideFlatten == <<wfVars, importVars, assetVars, transformVars, exportContextVars,
    elementsVars, valueToStoreVars>>

\* the asset decision functions are not called
AssetIdle ==
    /\ assetArg = "idle"
    /\ targetArg = "idle"
    /\ returned = <<>>

\* no element transform is called
TransformIdle ==
    /\ importContext = "idle"
    /\ importedSoFar = "idle"
    /\ exportContext = "idle"
    /\ transformType = "idle"
    /\ elementValue = "idle"
    /\ transformed = "idle"
    /\ warnings = "idle"
    /\ tpc = "idle"

\* getExportContextAsync is not called
ExportContextIdle ==
    /\ preparedExportItems = "idle"
    /\ referencedData = "idle"
    /\ viewRequests = "idle"
    /\ fetchedItems = "idle"
    /\ fetchedAssets = "idle"
    /\ itemStates = "idle"
    /\ assetStates = "idle"
    /\ epc = "idle"

\* getMigrationElements is not called
ElementsIdle ==
    /\ contentTypeElements = "idle"
    /\ variantElements = "idle"
    /\ migrationElements = "idle"
    /\ mpc = "idle"

\* getValueToStoreFromElement is not called
ValueToStoreIdle ==
    /\ storeTypeElement = "idle"
    /\ storeExportElement = "idle"
    /\ storeContext = "idle"
    /\ valueToStore = "idle"
    /\ spc = "idle"

\* getContentTypeElements is not called
FlattenIdle ==
    /\ typeElementsArg = "idle"
    /\ contentTypeSnippets = "idle"
    /\ flattened = "idle"
    /\ fpc = "idle"

-----------------------------------------------------------------------------
(* Bounds *)

\* most workflows a target environment holds
MaxWorkflows == 2

\* most content items in the data to import
MaxItems == 2

\* most assets in the data to import
MaxAssets == 1

\* most import runs over the same data
MaxRuns == 2

\* most references an element value holds
MaxReferences == 2

\* most assets the import context holds as imported
MaxImportedAssets == 2

\* most elements a content type or a language variant holds
MaxElements == 3

-----------------------------------------------------------------------------
(* Generic helpers *)

Range(s) == {s[i] : i \in DOMAIN s}

NoDuplicates(s) == \A i, j \in DOMAIN s : i # j => s[i] # s[j]

\* all sequences over S of length 0..n without repetition
RECURSIVE InjectiveSeqs(_, _)
InjectiveSeqs(S, n) ==
    IF n = 0 THEN {<<>>}
    ELSE LET shorter  == InjectiveSeqs(S, n - 1)
             extended == {Append(t, x) : t \in {u \in shorter : Len(u) = n - 1}, x \in S}
         IN  shorter \cup {s \in extended : NoDuplicates(s)}

\* String.prototype.toLowerCase on the codenames the model uses
Lower(s) ==
    CASE s = "Default" -> "default"
      [] s = "Legacy"  -> "legacy"
      [] s = "Hero"    -> "hero"
      [] s = "Logo"    -> "logo"
      [] OTHER         -> s

\* Array.prototype.find over a sequence: the least of the matching indices, 0 when none
FirstIndex(matching) ==
    IF matching = {} THEN 0
    ELSE CHOOSE i \in matching : \A j \in matching : i <= j

-----------------------------------------------------------------------------
(* Workflows of the target environment (WorkflowModels.Workflow).           *)
(* Only codenames are modelled: no decision of the code reads a step id.     *)

Workflow(c, pub, sch, arch, regular) ==
    [codename |-> c, publishedStep |-> pub, scheduledStep |-> sch,
     archivedStep |-> arch, steps |-> regular]

\* Candidate workflows. Step codenames are unique inside a workflow; nothing
\* relates the step codenames of two different workflows.
WorkflowDefault == Workflow("default", "published", "scheduled", "archived", <<"draft", "review">>)
\* a workflow whose codename is also the codename of one of its regular steps
WorkflowDraft   == Workflow("draft", "published", "scheduled", "archived", <<"draft">>)
\* a workflow naming its steps on its own
WorkflowLegacy  == Workflow("legacy", "live", "review", "published", <<"draft", "archived">>)
\* a workflow naming some of its steps on its own
WorkflowNews    == Workflow("news", "published", "live", "archived", <<"review", "scheduled">>)

WorkflowUniverse == {WorkflowDefault, WorkflowDraft, WorkflowLegacy, WorkflowNews}

\* codenames a caller may pass as workflowCodename
WorkflowCodenameArgs == {"default", "Default", "draft", "legacy", "news", "missing"}

\* codenames a caller may pass as workflowStepCodename
StepCodenameArgs == {"draft", "review", "published", "scheduled", "archived", "live", "unknown"}

AllStepsOf(w) == {w.archivedStep, w.publishedStep, w.scheduledStep} \cup Range(w.steps)

NoError == [kind |-> "none", mentions |-> <<>>]

\* one management API call on the language variant of the migration item passed
\* in (every call addresses that item codename and language); workflow and step
\* are the request body, outcome is what the API answered
Call(op, w, s, outcome) == [op |-> op, workflow |-> w, step |-> s, outcome |-> outcome]

-----------------------------------------------------------------------------
(* ImportWorkflowService (src/unnamed/part_005)                              *)

Undefined == "<undefined>"

\* workflows.find((m) => m.codename?.toLowerCase() === workflowCodename.toLowerCase())
FindWorkflow(workflowCodename, wfs) ==
    FirstIndex({i \in DOMAIN wfs : Lower(wfs[i].codename) = Lower(workflowCodename)})

\* the Error thrown when no workflow matches: names the codename and lists
\* the codenames of the available workflows
WorkflowNotFoundError(workflowCodename, wfs) ==
    [kind |-> "workflowNotFound",
     mentions |-> <<workflowCodename>> \o [i \in DOMAIN wfs |-> wfs[i].codename]]

\* the Error thrown when the step is not a step of the workflow: names the step
\* codename and the workflow it was looked up in
StepNotFoundError(stepCodename, workflow) ==
    [kind |-> "stepNotFound", mentions |-> <<stepCodename, workflow.codename>>]

\* logErrorAndExit of the helper: names the item and the step codename
StepNotFoundExit(itemCodename, stepCodename) ==
    [kind |-> "exit", mentions |-> <<itemCodename, stepCodename>>]

\* mutant: the step codename is taken over without looking it up in the workflow
GetWorkflowStepUnchecked(workflow, stepCodename) == stepCodename

\* codename of the step found, Undefined when the workflow has no such step
GetWorkflowStep(workflow, stepCodename) ==
    IF workflow.archivedStep = stepCodename THEN workflow.archivedStep
    ELSE IF workflow.publishedStep = stepCodename THEN workflow.publishedStep
    ELSE IF workflow.scheduledStep = stepCodename THEN workflow.scheduledStep
    ELSE LET i == FirstIndex({j \in DOMAIN workflow.steps : workflow.steps[j] = stepCodename})
         IN  IF i # 0 THEN workflow.steps[i] ELSE Undefined

Resolved(w, s) == [ok |-> TRUE, workflow |-> w, step |-> s, error |-> NoError]

Rejected(e) == [ok |-> FALSE, workflow |-> WorkflowDefault, step |-> Undefined, error |-> e]

GetWorkflowAndStep(stepCodename, workflowCodename, wfs) ==
    LET i == FindWorkflow(workflowCodename, wfs)
    IN  IF i = 0 THEN Rejected(WorkflowNotFoundError(workflowCodename, wfs))
        ELSE LET step == GetWorkflowStep(wfs[i], stepCodename)
             IN  IF step = Undefined THEN Rejected(StepNotFoundError(stepCodename, wfs[i]))
                 ELSE Resolved(wfs[i], step)

\* mutant: the loop returns after looking at the first workflow only
PublishedStepOfFirstWorkflowOnly(stepCodename, wfs) ==
    wfs[1].publishedStep = stepCodename

DoesWorkflowStepCodenameRepresentPublishedStep(stepCodename, wfs) ==
    \E i \in DOMAIN wfs : wfs[i].publishedStep = stepCodename

DoesWorkflowStepCodenameRepresentArchivedStep(stepCodename, wfs) ==
    \E i \in DOMAIN wfs : wfs[i].archivedStep = stepCodename

DoesWorkflowStepCodenameRepresentScheduledStep(stepCodename, wfs) ==
    \E i \in DOMAIN wfs : wfs[i].scheduledStep = stepCodename

(* ImportWorkflowHelper (src/unnamed/part_000)                               *)

DoesWorkflowStepExist(workflowCodename, stepCodename, wfs) ==
    LET workflow == wfs[FindWorkflow(workflowCodename, wfs)]
    IN  \/ workflow.archivedStep = stepCodename
        \/ workflow.publishedStep = stepCodename
        \/ workflow.scheduledStep = stepCodename
        \/ \E i \in DOMAIN workflow.steps : workflow.steps[i] = stepCodename

\* codename of the migration item whose language variant is moved
ItemCodename == "article"

\* lines 36-45 of the helper: resolve the workflow, then check the step
HelperResolve(stepCodename, workflowCodename, wfs) ==
    LET i == FindWorkflow(workflowCodename, wfs)
    IN  IF i = 0 THEN Rejected(WorkflowNotFoundError(workflowCodename, wfs))
        ELSE IF ~DoesWorkflowStepExist(workflowCodename, stepCodename, wfs)
             THEN Rejected(StepNotFoundExit(ItemCodename, stepCodename))
             ELSE Resolved(wfs[i], stepCodename)

(* setWorkflowOfLanguageVariantAsync, both implementations                   *)

\* the validation both implementations start with
ResolveTarget ==
    IF wfImpl = "service" THEN GetWorkflowAndStep(stepArg, wfArg, workflows)
    ELSE HelperResolve(stepArg, wfArg, workflows)

\* the branch of the if / else-if chain the call takes
TransitionBranch(stepCodename, wfs) ==
    IF DoesWorkflowStepCodenameRepresentPublishedStep(stepCodename, wfs) THEN "published"
    ELSE IF DoesWorkflowStepCodenameRepresentScheduledStep(stepCodename, wfs) THEN "scheduled"
    ELSE IF DoesWorkflowStepCodenameRepresentArchivedStep(stepCodename, wfs) THEN "archived"
    ELSE "regular"

\* `workflow.codename === workflowStepCodename`: the test guarding the comment
\* "item is already in the target workflow step"
IsAlreadyInTargetStep(workflow, stepCodename) == workflow.codename = stepCodename

\* step_identifier of the generic change-workflow request:
\* step.codename in the service, importContentItem.system.workflow_step in the helper
ChangeStepIdentifier(step) == IF wfImpl = "service" THEN step ELSE itemStep

\* mutant: the catch block swallows every error of the unpublish call
ToleratesEveryUnpublishError(outcome) == outcome # "ok"

\* whether the catch block of the unpublish call swallows the error
IsToleratedUnpublishError(outcome) == outcome = "domainError"

WfCallFails(error) ==
    /\ wpc' = "failed"
    /\ werror' = error

WfCallReturns ==
    /\ wpc' = "done"
    /\ UNCHANGED werror

WfInputs == <<wfImpl, workflows, wfArg, stepArg, itemStep, variantBefore>>

\* getWorkflowAndStep throws (service); getWorkflowByCodename throws or
\* logErrorAndExit ends the process (helper)
RejectTarget ==
    /\ wpc = "start"
    /\ ~ResolveTarget.ok
    /\ WfCallFails(ResolveTarget.error)
    /\ UNCHANGED <<wcalls, WfInputs>>
    /\ UNCHANGED outsideWorkflow

PublishVariant ==
    /\ wpc = "start"
    /\ ResolveTarget.ok
    /\ TransitionBranch(stepArg, workflows) = "published"
    /\ \E outcome \in {"ok", "error"} :
          /\ wcalls' = Append(wcalls, Call("publish", "-", "-", outcome))
          /\ IF outcome = "ok" THEN WfCallReturns
             ELSE WfCallFails([kind |-> "publishFailed", mentions |-> <<>>])
    /\ UNCHANGED WfInputs
    /\ UNCHANGED outsideWorkflow

SkipScheduled ==
    /\ wpc = "start"
    /\ ResolveTarget.ok
    /\ TransitionBranch(stepArg, workflows) = "scheduled"
    /\ WfCallReturns
    /\ UNCHANGED <<wcalls, WfInputs>>
    /\ UNCHANGED outsideWorkflow

\* the try / catch around unpublishLanguageVariant
UnpublishVariant ==
    /\ wpc = "start"
    /\ ResolveTarget.ok
    /\ TransitionBranch(stepArg, workflows) = "archived"
    /\ \E outcome \in {"ok", "domainError", "otherError"} :
          /\ wcalls' = Append(wcalls, Call("unpublish", "-", "-", outcome))
          /\ IF outcome = "ok" \/ IsToleratedUnpublishError(outcome)
             THEN wpc' = "archive" /\ UNCHANGED werror
             ELSE WfCallFails([kind |-> "unpublishFailed", mentions |-> <<>>])
    /\ UNCHANGED WfInputs
    /\ UNCHANGED outsideWorkflow

\* changeWorkflowOfLanguageVariant to workflow.archivedStep
ArchiveVariant ==
    /\ wpc = "archive"
    /\ \E outcome \in {"ok", "error"} :
          /\ LET workflow == ResolveTarget.workflow
             IN  wcalls' = Append(wcalls, Call("changeWorkflow", workflow.codename,
                                              workflow.archivedStep, outcome))
          /\ IF outcome = "ok" THEN WfCallReturns
             ELSE WfCallFails([kind |-> "changeWorkflowFailed", mentions |-> <<>>])
    /\ UNCHANGED WfInputs
    /\ UNCHANGED outsideWorkflow

\* the empty then-branch of the last else
KeepCurrentStep ==
    /\ wpc = "start"
    /\ ResolveTarget.ok
    /\ TransitionBranch(stepArg, workflows) = "regular"
    /\ IsAlreadyInTargetStep(ResolveTarget.workflow, stepArg)
    /\ WfCallReturns
    /\ UNCHANGED <<wcalls, WfInputs>>
    /\ UNCHANGED outsideWorkflow

ChangeWorkflowStep ==
    /\ wpc = "start"
    /\ ResolveTarget.ok
    /\ TransitionBranch(stepArg, workflows) = "regular"
    /\ ~IsAlreadyInTargetStep(ResolveTarget.workflow, stepArg)
    /\ \E outcome \in {"ok", "error"} :
          /\ wcalls' = Append(wcalls, Call("changeWorkflow", ResolveTarget.workflow.codename,
                                           ChangeStepIdentifier(ResolveTarget.step), outcome))
          /\ IF outcome = "ok" THEN WfCallReturns
             ELSE WfCallFails([kind |-> "changeWorkflowFailed", mentions |-> <<>>])
    /\ UNCHANGED WfInputs
    /\ UNCHANGED outsideWorkflow

\* the (workflow, step) pairs a language variant of the environment can be in
VariantPositions(wfs) ==
    {[workflow |-> wfs[i].codename, step |-> s] : i \in DOMAIN wfs, s \in StepCodenameArgs}
        \cap UNION {{[workflow |-> w.codename, step |-> s] : s \in AllStepsOf(w)} : w \in Range(wfs)}


-----------------------------------------------------------------------------
(* Asset update decision (src/unnamed/part_004)                              *)

\* collections and languages of the target environment
TargetCollections ==
    <<[id |-> "c-default", codename |-> "default"],
      [id |-> "c-marketing", codename |-> "marketing"]>>

TargetLanguages ==
    <<[id |-> "l-en", codename |-> "en"], [id |-> "l-es", codename |-> "es"]>>

\* `value?.length ? value : undefined`
EmptyToUndefined(value) == IF value = Undefined \/ value = "" THEN Undefined ELSE value

\* geSizeInBytes(binaryData): the binary data is modelled by its byte length
SizeInBytes(binaryData) == binaryData

IsBinaryFileIdentical(migrationAsset, targetAsset) ==
    /\ SizeInBytes(migrationAsset.binaryData) = targetAsset.size
    /\ migrationAsset.filename = targetAsset.fileName

\* mutant: the title is not looked at
TitleIsIgnored(migrationAsset, targetAsset) == TRUE

IsTitleIdentical(migrationAsset, targetAsset) ==
    EmptyToUndefined(migrationAsset.title) = EmptyToUndefined(targetAsset.title)

\* collections.find((m) => m.id === targetAsset.collection?.reference?.id)?.codename
CollectionCodenameOf(collectionId, collections) ==
    LET i == FirstIndex({j \in DOMAIN collections : collections[j].id = collectionId})
    IN  IF i = 0 THEN Undefined ELSE collections[i].codename

IsInSameCollection(migrationAsset, targetAsset, collections) ==
    CollectionCodenameOf(targetAsset.collectionId, collections) = migrationAsset.collection

\* String(value) of a plain object, the key toSorted() orders by when it is
\* given no comparator
StringImage(value) == "[object Object]"

\* the string images that occur, in UTF-16 code unit order
StringImagesInOrder == <<"[object Object]">>

SortsBefore(a, b) ==
    LET Position(str) == CHOOSE i \in DOMAIN StringImagesInOrder : StringImagesInOrder[i] = str
    IN  Position(StringImage(a)) < Position(StringImage(b))

\* Array.prototype.toSorted(): a stable sort, here by insertion
RECURSIVE ToSorted(_)
ToSorted(seq) ==
    IF seq = <<>> THEN <<>>
    ELSE LET sortedFront == ToSorted(SubSeq(seq, 1, Len(seq) - 1))
             last == seq[Len(seq)]
             \* last goes behind every element that does not sort after it
             keep == CHOOSE k \in 0..Len(sortedFront) :
                        /\ \A i \in 1..k : ~SortsBefore(last, sortedFront[i])
                        /\ k < Len(sortedFront) => SortsBefore(last, sortedFront[k + 1])
         IN  SubSeq(sortedFront, 1, keep) \o <<last>>
                \o SubSeq(sortedFront, keep + 1, Len(sortedFront))

\* findRequired(languages, (language) => language.id === languageId).codename
LanguageCodenameOf(languageId, languages) ==
    languages[FirstIndex({j \in DOMAIN languages : languages[j].id = languageId})].codename

MapToMigrationDescriptions(targetAsset, languages) ==
    [i \in DOMAIN targetAsset.descriptions |->
        [description |-> EmptyToUndefined(targetAsset.descriptions[i].description),
         language |-> LanguageCodenameOf(targetAsset.descriptions[i].languageId, languages)]]

\* an optional array (`descriptions?:`) and `value ?? []`
NoArray == [present |-> FALSE, value |-> <<>>]

ArrayOf(seq) == [present |-> TRUE, value |-> seq]

OrEmpty(optional) == IF optional.present THEN optional.value ELSE <<>>

\* deepEqual of two arrays of { description, language: { codename } }
DeepEqual(a, b) == a = b

AreDescriptionsIdentical(migrationAsset, targetAsset, languages) ==
    LET given == OrEmpty(migrationAsset.descriptions)
        sourceMigrationDescriptions ==
            ToSorted([i \in DOMAIN given |->
                        [description |-> EmptyToUndefined(given[i].description),
                         language |-> given[i].language]])
        targetMigrationDescriptions ==
            ToSorted(MapToMigrationDescriptions(targetAsset, languages))
    IN  DeepEqual(sourceMigrationDescriptions, targetMigrationDescriptions)

ShouldUpdateAsset(migrationAsset, targetAsset, collections, languages) ==
    IF ~IsInSameCollection(migrationAsset, targetAsset, collections) THEN TRUE
    ELSE IF ~AreDescriptionsIdentical(migrationAsset, targetAsset, languages) THEN TRUE
    ELSE IF ~IsTitleIdentical(migrationAsset, targetAsset) THEN TRUE
    ELSE IF ~IsBinaryFileIdentical(migrationAsset, targetAsset) THEN TRUE
    ELSE FALSE

\* mutant: a changed title replaces the binary file too
ReplaceWhenTitleDiffers(migrationAsset, targetAsset) ==
    ~IsBinaryFileIdentical(migrationAsset, targetAsset)
        \/ ~IsTitleIdentical(migrationAsset, targetAsset)

ShouldReplaceBinaryFile(migrationAsset, targetAsset) ==
    IF ~IsBinaryFileIdentical(migrationAsset, targetAsset) THEN TRUE ELSE FALSE

-----------------------------------------------------------------------------
(* Import data and target environment                                        *)

\* an item of the data to import; workflow_step is undefined only for an item
\* that represents a component of a rich text element
ParsedItem(codename, name, collection, workflowStep) ==
    [codename |-> codename, name |-> name, type |-> "page", collection |-> collection,
     workflow_step |-> workflowStep]

ParsedItemUniverse ==
    {ParsedItem("home", "Home", "default", "draft"),
     ParsedItem("home", "Start", "default", "draft"),
     ParsedItem("home", "Home", "marketing", "published"),
     ParsedItem("about", "About", "default", "draft"),
     ParsedItem("about", "About", "unknown", "draft"),
     ParsedItem("teaser", "Teaser", "default", Undefined)}

ItemCodenames == {item.codename : item \in ParsedItemUniverse}

\* a content item of the target environment (ContentItemModels.ContentItem)
ContentItem(codename, name, type, collection) ==
    [exists |-> TRUE, codename |-> codename, name |-> name, type |-> type,
     collection |-> collection]

NoContentItem ==
    [exists |-> FALSE, codename |-> Undefined, name |-> Undefined, type |-> Undefined,
     collection |-> Undefined]

\* what the target environment may hold for a codename before the first run
ExistingItemChoices(codename) ==
    {NoContentItem} \cup
        (IF codename = "home" THEN {ContentItem("home", "Home", "page", "default")}
         ELSE IF codename = "about" THEN {ContentItem("about", "About", "page", "default")}
         ELSE {})

MigrationAsset(codename, title, filename, size, collection, descriptions) ==
    [codename |-> codename, title |-> title, filename |-> filename, binaryData |-> size,
     collection |-> collection, descriptions |-> descriptions]

MigrationAssetUniverse ==
    {MigrationAsset("logo", "", "logo.png", 10, Undefined, NoArray),
     MigrationAsset("hero", "Hero", "hero.jpg", 20, "marketing",
                    ArrayOf(<<[language |-> "en", description |-> "A hero"],
                              [language |-> "es", description |-> ""]>>))}

AssetCodenames == {asset.codename : asset \in MigrationAssetUniverse}

NoAsset ==
    [exists |-> FALSE, codename |-> Undefined, title |-> Undefined, fileName |-> Undefined,
     size |-> 0, collectionId |-> Undefined, descriptions |-> <<>>]

IdOfCodename(codename, entities) ==
    IF codename = Undefined THEN Undefined
    ELSE entities[FirstIndex({j \in DOMAIN entities : entities[j].codename = codename})].id

\* the asset the target environment holds once the migration asset has been
\* uploaded and created or upserted
TargetCopy(migrationAsset) ==
    [exists |-> TRUE,
     codename |-> migrationAsset.codename,
     title |-> migrationAsset.title,
     fileName |-> migrationAsset.filename,
     size |-> SizeInBytes(migrationAsset.binaryData),
     collectionId |-> IdOfCodename(migrationAsset.collection, TargetCollections),
     descriptions |->
        LET given == OrEmpty(migrationAsset.descriptions)
        IN  [i \in DOMAIN given |->
                [languageId |-> IdOfCodename(given[i].language, TargetLanguages),
                 description |-> given[i].description]]]

\* an older copy of the asset: another binary file under another title
StaleCopy(migrationAsset) ==
    [TargetCopy(migrationAsset) EXCEPT !.title = "Old", !.size = @ + 1]

\* a canImport predicate is modelled by the set of codenames it accepts
Unset == [configured |-> FALSE, accepts |-> {}]

Predicate(accepted) == [configured |-> TRUE, accepts |-> accepted]

ConfigUniverse ==
    {[skipFailedItems |-> FALSE, canImportAsset |-> Unset, canImportContentItem |-> Unset],
     [skipFailedItems |-> TRUE, canImportAsset |-> Unset, canImportContentItem |-> Unset],
     [skipFailedItems |-> FALSE, canImportAsset |-> Unset,
      canImportContentItem |-> Predicate({"home", "teaser"})],
     [skipFailedItems |-> TRUE, canImportAsset |-> Predicate({"hero"}),
      canImportContentItem |-> Unset]}

CodenamesOf(seq) == {seq[i].codename : i \in DOMAIN seq}

UniqueCodenames(seq) == \A i, j \in DOMAIN seq : i # j => seq[i].codename # seq[j].codename

\* one management API call of the import run
ApiCall(kind, op, codename, name, type, collection, outcome) ==
    [kind |-> kind, op |-> op, codename |-> codename, name |-> name, type |-> type,
     collection |-> collection, outcome |-> outcome]

-----------------------------------------------------------------------------
(* DefaultImportAdapter (src/lib/import/adapters/default-import.adapter.ts)  *)

\* mutant: the answer of the predicate is not looked at
AcceptsEverything(predicate, entity) == TRUE

\* const canImport = this.config.canImport.asset(asset), and the same for items
Accepts(predicate, entity) == entity.codename \in predicate.accepts

\* the loop of filterDataToImport over one of the two arrays
RECURSIVE FilterBy(_, _)
FilterBy(predicate, source) ==
    IF source = <<>> THEN <<>>
    ELSE LET kept == FilterBy(predicate, SubSeq(source, 1, Len(source) - 1))
             last == source[Len(source)]
         IN  IF Accepts(predicate, last) THEN Append(kept, last) ELSE kept

FilterDataToImport(source, cfg) ==
    [assets |-> IF cfg.canImportAsset.configured
                THEN FilterBy(cfg.canImportAsset, source.assets)
                ELSE source.assets,
     items  |-> IF cfg.canImportContentItem.configured
                THEN FilterBy(cfg.canImportContentItem, source.items)
                ELSE source.items]

\* where importAsync goes after the import context is built, and after the assets
PhaseAfterContext(data) ==
    IF Len(data.assets) > 0 THEN "assets"
    ELSE IF Len(data.items) > 0 THEN "listWorkflows" ELSE "done"

PhaseAfterAssets(data) == IF Len(data.items) > 0 THEN "listWorkflows" ELSE "done"

\* mutant: importAssetsAsync is not awaited
ImportAssetsNotAwaited == TRUE

\* `await this.importAssetsService.importAssetsAsync(...)` has returned
ImportAssetsReturned == assetsPending = {}

Abort(failure) ==
    /\ phase' = "failed"
    /\ runError' = failure

ApiError(op) == [kind |-> "apiError", mentions |-> <<op>>]

ImportInputs == <<config, sourceData, run>>

\* const dataToImport = this.filterDataToImport(sourceData)
FilterData ==
    /\ phase = "filter"
    /\ dataToImport' = FilterDataToImport(sourceData, config)
    /\ phase' = "context"
    /\ UNCHANGED <<ImportInputs, targetItems, targetAssets, assetsPending, itemIndex, itemPc,
                   preparedItems, importedData, variantIndex, calls, runError>>
    /\ UNCHANGED outsideImport

\* await this.importContextService.getImportContextAsync(dataToImport), then
\* the two `if (....length)` of importAsync
BuildImportContext ==
    /\ phase = "context"
    /\ phase' = PhaseAfterContext(dataToImport)
    /\ assetsPending' = IF Len(dataToImport.assets) > 0 THEN DOMAIN dataToImport.assets ELSE {}
    /\ UNCHANGED <<ImportInputs, dataToImport, targetItems, targetAssets, itemIndex, itemPc,
                   preparedItems, importedData, variantIndex, calls, runError>>
    /\ UNCHANGED outsideImport

(* ImportAssetsService.importAssetsAsync: one step per asset, in any order   *)

AssetCall(op, asset, outcome) ==
    ApiCall("asset", op, asset.codename, asset.title, "-", asset.collection, outcome)

\* an asset request was answered: the asset is stored, or the failure is
\* skipped or ends the run
AssetRequestAnswered(i, asset, outcome) ==
    IF outcome = "ok"
    THEN /\ targetAssets' = [targetAssets EXCEPT ![asset.codename] = TargetCopy(asset)]
         /\ assetsPending' = assetsPending \ {i}
         /\ UNCHANGED <<phase, runError>>
    ELSE IF config.skipFailedItems
    THEN /\ assetsPending' = assetsPending \ {i}
         /\ UNCHANGED <<targetAssets, phase, runError>>
    ELSE /\ Abort(ApiError("asset"))
         /\ UNCHANGED <<targetAssets, assetsPending>>

AssetStepFrame ==
    UNCHANGED <<ImportInputs, dataToImport, targetItems, itemIndex, itemPc, preparedItems,
                importedData, variantIndex>>

\* the asset is not in the target environment: upload the file, create the asset
CreateAsset(i) ==
    /\ i \in assetsPending
    /\ phase # "failed"
    /\ LET asset == dataToImport.assets[i]
       IN  /\ ~targetAssets[asset.codename].exists
           /\ \E outcome \in {"ok", "error"} :
                 /\ calls' = Append(calls, AssetCall("addAsset", asset, outcome))
                 /\ AssetRequestAnswered(i, asset, outcome)
    /\ AssetStepFrame
    /\ UNCHANGED outsideImport

\* the asset is in the target environment and shouldUpdateAsset says it differs
UpdateAsset(i) ==
    /\ i \in assetsPending
    /\ phase # "failed"
    /\ LET asset == dataToImport.assets[i]
       IN  /\ targetAssets[asset.codename].exists
           /\ ShouldUpdateAsset(asset, targetAssets[asset.codename], TargetCollections,
                                TargetLanguages)
           /\ \E outcome \in {"ok", "error"} :
                 /\ calls' = Append(calls, AssetCall("upsertAsset", asset, outcome))
                 /\ AssetRequestAnswered(i, asset, outcome)
    /\ AssetStepFrame
    /\ UNCHANGED outsideImport

\* the asset is in the target environment and needs no update
SkipAsset(i) ==
    /\ i \in assetsPending
    /\ phase # "failed"
    /\ LET asset == dataToImport.assets[i]
       IN  /\ targetAssets[asset.codename].exists
           /\ ~ShouldUpdateAsset(asset, targetAssets[asset.codename], TargetCollections,
                                 TargetLanguages)
    /\ assetsPending' = assetsPending \ {i}
    /\ UNCHANGED <<targetAssets, calls, phase, runError>>
    /\ AssetStepFrame
    /\ UNCHANGED outsideImport

\* importAssetsAsync has returned; importAsync goes on with the content items
AssetsImported ==
    /\ phase = "assets"
    /\ ImportAssetsReturned
    /\ phase' = PhaseAfterAssets(dataToImport)
    /\ UNCHANGED <<ImportInputs, dataToImport, targetItems, targetAssets, assetsPending,
                   itemIndex, itemPc, preparedItems, importedData, variantIndex, calls,
                   runError>>
    /\ UNCHANGED outsideImport

ListCall(op, outcome) == ApiCall("list", op, "-", "-", "-", "-", outcome)

\* const workflows = await this.getWorkflowsAsync()
ListWorkflows ==
    /\ phase = "listWorkflows"
    /\ \E outcome \in {"ok", "error"} :
          /\ calls' = Append(calls, ListCall("listWorkflows", outcome))
          /\ IF outcome = "ok" THEN phase' = "listCollections" /\ UNCHANGED runError
             ELSE Abort(ApiError("listWorkflows"))
    /\ UNCHANGED <<ImportInputs, dataToImport, targetItems, targetAssets, assetsPending,
                   itemIndex, itemPc, preparedItems, importedData, variantIndex>>
    /\ UNCHANGED outsideImport

\* const collections = await this.getCollectionsAsync(); importContentItemsAsync starts
ListCollections ==
    /\ phase = "listCollections"
    /\ \E outcome \in {"ok", "error"} :
          /\ calls' = Append(calls, ListCall("listCollections", outcome))
          /\ IF outcome = "ok" THEN phase' = "items" /\ UNCHANGED runError
             ELSE Abort(ApiError("listCollections"))
    /\ itemIndex' = 1
    /\ itemPc' = "view"
    /\ preparedItems' = <<>>
    /\ UNCHANGED <<ImportInputs, dataToImport, targetItems, targetAssets, assetsPending,
                   importedData, variantIndex>>
    /\ UNCHANGED outsideImport

-----------------------------------------------------------------------------
(* ImportContentItemHelper (src/lib/import/helpers/import-content-item.helper.ts) *)

\* parsedItemsHelper.categorizeParsedItems: an item without workflow step
\* represents a component, every other item is a regular item
IsComponentItem(item) == item.workflow_step = Undefined

RECURSIVE RegularItemsOf(_)
RegularItemsOf(items) ==
    IF items = <<>> THEN <<>>
    ELSE LET front == RegularItemsOf(SubSeq(items, 1, Len(items) - 1))
             last == items[Len(items)]
         IN  IF IsComponentItem(last) THEN front ELSE Append(front, last)

\* mutant: the loop of importContentItemsAsync runs over every parsed item
EveryParsedItem == dataToImport.items

\* categorizedParsedItems.regularItems of the run
RegularItems == RegularItemsOf(dataToImport.items)

\* collections.find((m) => m.codename === parsedContentItem.system.collection)
FindCollection(parsedContentItem, collections) ==
    FirstIndex({j \in DOMAIN collections : collections[j].codename = parsedContentItem.collection})

\* mutant: the incoming collection is compared with the collection of the target item
ShouldUpdateContentItemByCollection(parsedContentItem, contentItem, collections) ==
    \/ parsedContentItem.name # contentItem.name
    \/ parsedContentItem.collection # contentItem.collection

\* mutant: the incoming name is compared with the codename of the target item
ShouldUpdateContentItemByCodename(parsedContentItem, contentItem, collections) ==
    LET collection == collections[FindCollection(parsedContentItem, collections)]
    IN  \/ parsedContentItem.name # contentItem.codename
        \/ parsedContentItem.collection # collection.codename

\* the return statement of shouldUpdateContentItem, reached when the collection exists
ShouldUpdateContentItem(parsedContentItem, contentItem, collections) ==
    LET collection == collections[FindCollection(parsedContentItem, collections)]
    IN  \/ parsedContentItem.name # contentItem.name
        \/ parsedContentItem.collection # collection.codename

\* mutant: every error of the view request is taken for "not found"
EveryErrorIs404(outcome) == outcome # "ok"

\* is404Error(error) on the rejection of the view request
Is404Error(outcome) == outcome = "404"

\* whether the call of importContentItemAsync stands inside the try block whose
\* catch looks at skipFailedItems: it is awaited before the (empty) try block
ItemImportIsInsideTry == FALSE

\* the answers the target environment can give
ViewOutcomes(target) == IF target.exists THEN {"ok", "error"} ELSE {"404", "error"}

\* the target environment refuses an item in a collection it does not have
CreateOutcomes(item) ==
    IF FindCollection(item, TargetCollections) # 0 THEN {"ok", "error"} ELSE {"error"}

ItemCall(op, item, outcome) ==
    ApiCall("item", op, item.codename, item.name, item.type, item.collection, outcome)

ImportedPair(item, contentItem) == [original |-> item.codename, imported |-> contentItem.codename]

NextItem ==
    /\ itemIndex' = itemIndex + 1
    /\ itemPc' = "view"

\* a request of importContentItemAsync was rejected
ItemImportFailed(op) ==
    IF ItemImportIsInsideTry /\ config.skipFailedItems
    THEN /\ NextItem
         /\ UNCHANGED <<phase, runError>>
    ELSE /\ Abort(ApiError(op))
         /\ UNCHANGED <<itemIndex, itemPc>>

ItemStepFrame ==
    UNCHANGED <<ImportInputs, dataToImport, targetAssets, assetsPending, variantIndex>>

\* prepareContentItemAsync: viewContentItem().byItemCodename(...), and for an
\* item that exists the rest of importContentItemAsync up to the upsert request
ViewContentItem ==
    /\ phase = "items"
    /\ itemIndex <= Len(RegularItems)
    /\ itemPc = "view"
    /\ LET item == RegularItems[itemIndex]
           target == targetItems[item.codename]
       IN  \E outcome \in ViewOutcomes(target) :
             /\ calls' = Append(calls, ApiCall("item", "viewContentItem", item.codename,
                                               target.name, target.type, target.collection,
                                               outcome))
             /\ IF outcome = "ok"
                THEN /\ importedData' = Append(importedData, ImportedPair(item, target))
                     /\ preparedItems' = Append(preparedItems, target)
                     /\ IF FindCollection(item, TargetCollections) = 0
                        THEN \* logErrorAndExit: Invalid collection
                             /\ Abort([kind |-> "exit", mentions |-> <<item.collection>>])
                             /\ UNCHANGED <<itemIndex, itemPc>>
                        ELSE IF ShouldUpdateContentItem(item, target, TargetCollections)
                        THEN /\ itemPc' = "upsert"
                             /\ UNCHANGED <<itemIndex, phase, runError>>
                        ELSE /\ NextItem
                             /\ UNCHANGED <<phase, runError>>
                ELSE IF Is404Error(outcome)
                THEN /\ itemPc' = "create"
                     /\ UNCHANGED <<itemIndex, phase, runError, importedData, preparedItems>>
                ELSE /\ ItemImportFailed("viewContentItem")
                     /\ UNCHANGED <<importedData, preparedItems>>
    /\ UNCHANGED targetItems
    /\ ItemStepFrame
    /\ UNCHANGED outsideImport

\* the catch of prepareContentItemAsync: addContentItem().withData(...)
CreateContentItem ==
    /\ phase = "items"
    /\ itemIndex <= Len(RegularItems)
    /\ itemPc = "create"
    /\ LET item == RegularItems[itemIndex]
           created == ContentItem(item.codename, item.name, item.type, item.collection)
       IN  \E outcome \in CreateOutcomes(item) :
             /\ calls' = Append(calls, ItemCall("addContentItem", item, outcome))
             /\ IF outcome = "ok"
                THEN /\ targetItems' = [targetItems EXCEPT ![item.codename] = created]
                     /\ importedData' = Append(importedData, ImportedPair(item, created))
                     /\ preparedItems' = Append(preparedItems, created)
                     /\ NextItem
                     /\ UNCHANGED <<phase, runError>>
                ELSE /\ ItemImportFailed("addContentItem")
                     /\ UNCHANGED <<targetItems, importedData, preparedItems>>
    /\ ItemStepFrame
    /\ UNCHANGED outsideImport

\* upsertContentItem().byItemCodename(...).withData({ name, collection })
UpsertContentItem ==
    /\ phase = "items"
    /\ itemIndex <= Len(RegularItems)
    /\ itemPc = "upsert"
    /\ LET item == RegularItems[itemIndex]
       IN  \E outcome \in {"ok", "error"} :
             /\ calls' = Append(calls, ItemCall("upsertContentItem", item, outcome))
             /\ IF outcome = "ok"
                THEN /\ targetItems' = [targetItems EXCEPT
                                           ![item.codename].name = item.name,
                                           ![item.codename].collection = item.collection]
                     /\ NextItem
                     /\ UNCHANGED <<phase, runError>>
                ELSE /\ ItemImportFailed("upsertContentItem")
                     /\ UNCHANGED targetItems
    /\ UNCHANGED <<importedData, preparedItems>>
    /\ ItemStepFrame
    /\ UNCHANGED outsideImport

\* `return preparedItems`; importLanguageVariantsAsync starts
ReturnPreparedItems ==
    /\ phase = "items"
    /\ itemIndex > Len(RegularItems)
    /\ phase' = "variants"
    /\ variantIndex' = 1
    /\ UNCHANGED <<ImportInputs, dataToImport, targetItems, targetAssets, assetsPending,
                   itemIndex, itemPc, preparedItems, importedData, calls, runError>>
    /\ UNCHANGED outsideImport

(* ImportLanguageVariantServices.importLanguageVariantsAsync: the language   *)
(* variant of every regular item is upserted and its workflow set            *)

ImportLanguageVariant ==
    /\ phase = "variants"
    /\ variantIndex <= Len(RegularItems)
    /\ LET item == RegularItems[variantIndex]
       IN  \E outcome \in {"ok", "error"} :
             /\ calls' = Append(calls, ApiCall("variant", "upsertLanguageVariant",
                                               item.codename, item.name, item.type,
                                               item.collection, outcome))
             /\ IF outcome = "ok" \/ config.skipFailedItems
                THEN /\ variantIndex' = variantIndex + 1
                     /\ UNCHANGED <<phase, runError>>
                ELSE /\ Abort(ApiError("upsertLanguageVariant"))
                     /\ UNCHANGED variantIndex
    /\ UNCHANGED <<ImportInputs, dataToImport, targetItems, targetAssets, assetsPending,
                   itemIndex, itemPc, preparedItems, importedData>>
    /\ UNCHANGED outsideImport

\* importLanguageVariantsAsync has returned: "Finished import"
FinishImport ==
    /\ phase = "variants"
    /\ variantIndex > Len(RegularItems)
    /\ phase' = "done"
    /\ UNCHANGED <<ImportInputs, dataToImport, targetItems, targetAssets, assetsPending,
                   itemIndex, itemPc, preparedItems, importedData, variantIndex, calls,
                   runError>>
    /\ UNCHANGED outsideImport

\* importAsync is called again with the same data on the same environment
StartNextRun ==
    /\ phase = "done"
    /\ run < MaxRuns
    /\ run' = run + 1
    /\ phase' = "filter"
    /\ dataToImport' = [items |-> <<>>, assets |-> <<>>]
    /\ assetsPending' = {}
    /\ itemIndex' = 1
    /\ itemPc' = "view"
    /\ preparedItems' = <<>>
    /\ importedData' = <<>>
    /\ variantIndex' = 1
    /\ calls' = <<>>
    /\ UNCHANGED <<config, sourceData, targetItems, targetAssets, runError>>
    /\ UNCHANGED outsideImport

ItemSequences == {s \in InjectiveSeqs(ParsedItemUniverse, MaxItems) : UniqueCodenames(s)}

AssetSequences == {s \in InjectiveSeqs(MigrationAssetUniverse, MaxAssets) : UniqueCodenames(s)}

\* the workflow engine takes no part in an import run, and the other way round
WorkflowIdle ==
    /\ wfImpl = "service"
    /\ workflows = <<WorkflowDefault>>
    /\ wfArg = "default"
    /\ stepArg = "draft"
    /\ itemStep = "draft"
    /\ variantBefore = [workflow |-> "default", step |-> "draft"]
    /\ wpc = "idle"
    /\ wcalls = <<>>
    /\ werror = NoError

ImportIdle ==
    /\ config = [skipFailedItems |-> FALSE, canImportAsset |-> Unset,
                 canImportContentItem |-> Unset]
    /\ sourceData = [items |-> <<>>, assets |-> <<>>]
    /\ dataToImport = [items |-> <<>>, assets |-> <<>>]
    /\ targetItems = [c \in ItemCodenames |-> NoContentItem]
    /\ targetAssets = [c \in AssetCodenames |-> NoAsset]
    /\ phase = "idle"
    /\ assetsPending = {}
    /\ itemIndex = 1
    /\ itemPc = "view"
    /\ preparedItems = <<>>
    /\ importedData = <<>>
    /\ variantIndex = 1
    /\ calls = <<>>
    /\ run = 1
    /\ runError = NoError

InitWorkflow ==
    /\ ImportIdle
    /\ AssetIdle
    /\ TransformIdle
    /\ ExportContextIdle
    /\ ElementsIdle
    /\ ValueToStoreIdle
    /\ FlattenIdle
    /\ wfImpl \in {"service", "helper"}
    /\ workflows \in InjectiveSeqs(WorkflowUniverse, MaxWorkflows) \ {<<>>}
    /\ wfArg \in WorkflowCodenameArgs
    /\ stepArg \in StepCodenameArgs
    /\ itemStep \in {stepArg, "review"}
    /\ variantBefore \in VariantPositions(workflows)
    /\ wpc = "start"
    /\ wcalls = <<>>
    /\ werror = NoError

NextWorkflow ==
    \/ RejectTarget
    \/ PublishVariant
    \/ SkipScheduled
    \/ UnpublishVariant
    \/ ArchiveVariant
    \/ KeepCurrentStep
    \/ ChangeWorkflowStep

SpecWorkflow == InitWorkflow /\ [][NextWorkflow]_vars

InitImport ==
    /\ WorkflowIdle
    /\ AssetIdle
    /\ TransformIdle
    /\ ExportContextIdle
    /\ ElementsIdle
    /\ ValueToStoreIdle
    /\ FlattenIdle
    /\ config \in ConfigUniverse
    /\ sourceData \in [items : ItemSequences, assets : AssetSequences]
    /\ dataToImport = [items |-> <<>>, assets |-> <<>>]
    /\ targetItems \in {t \in [ItemCodenames -> UNION {ExistingItemChoices(c) : c \in ItemCodenames}] :
                          \A c \in ItemCodenames :
                              /\ t[c] \in ExistingItemChoices(c)
                              /\ c \notin CodenamesOf(sourceData.items) => ~t[c].exists}
    /\ targetAssets \in {t \in [AssetCodenames -> {NoAsset} \cup {StaleCopy(a) : a \in MigrationAssetUniverse}] :
                          \A c \in AssetCodenames :
                              t[c].exists =>
                                  \E i \in DOMAIN sourceData.assets :
                                      /\ sourceData.assets[i].codename = c
                                      /\ t[c] = StaleCopy(sourceData.assets[i])}
    /\ phase = "filter"
    /\ assetsPending = {}
    /\ itemIndex = 1
    /\ itemPc = "view"
    /\ preparedItems = <<>>
    /\ importedData = <<>>
    /\ variantIndex = 1
    /\ calls = <<>>
    /\ run = 1
    /\ runError = NoError

NextImport ==
    \/ FilterData
    \/ BuildImportContext
    \/ \E i \in DOMAIN dataToImport.assets : CreateAsset(i)
    \/ \E i \in DOMAIN dataToImport.assets : UpdateAsset(i)
    \/ \E i \in DOMAIN dataToImport.assets : SkipAsset(i)
    \/ AssetsImported
    \/ ListWorkflows
    \/ ListCollections
    \/ ViewContentItem
    \/ CreateContentItem
    \/ UpsertContentItem
    \/ ReturnPreparedItems
    \/ ImportLanguageVariant
    \/ FinishImport
    \/ StartNextRun

SpecImport == InitImport /\ [][NextImport]_vars

-----------------------------------------------------------------------------
(* Calls of shouldUpdateAsset and shouldReplaceBinaryFile (src/unnamed/part_004) *)

\* field values of the migration asset the functions are called with
AssetTitles == {"", "Hero"}

AssetFilenames == {"hero.jpg", "hero.png"}

\* binary data, modelled by its byte length
AssetBinaries == {10, 20}

AssetCollections == {Undefined, "default", "marketing"}

AssetDescriptions ==
    {NoArray,
     ArrayOf(<<[language |-> "en", description |-> "A hero"]>>),
     ArrayOf(<<[language |-> "en", description |-> ""]>>),
     ArrayOf(<<[language |-> "en", description |-> "A hero"],
               [language |-> "es", description |-> "Un heroe"]>>),
     ArrayOf(<<[language |-> "es", description |-> "Un heroe"],
               [language |-> "en", description |-> "A hero"]>>)}

MigrationAssetArgs ==
    {MigrationAsset("hero", title, filename, binaryData, collection, descriptions) :
        title \in AssetTitles, filename \in AssetFilenames, binaryData \in AssetBinaries,
        collection \in AssetCollections, descriptions \in AssetDescriptions}

\* field values of the target asset (AssetModels.Asset): a title and a
\* description the target environment does not have are null
TargetTitles == {Undefined, "Hero"}

TargetSizes == {10, 20}

TargetCollectionIds == {Undefined, "c-default", "c-marketing"}

TargetDescriptions ==
    {<<>>,
     <<[languageId |-> "l-en", description |-> "A hero"]>>,
     <<[languageId |-> "l-en", description |-> Undefined]>>,
     <<[languageId |-> "l-en", description |-> "A hero"],
       [languageId |-> "l-es", description |-> "Un heroe"]>>}

TargetAssetArgs ==
    {[exists |-> TRUE, codename |-> "hero", title |-> title, fileName |-> fileName,
      size |-> size, collectionId |-> collectionId, descriptions |-> descriptions] :
        title \in TargetTitles, fileName \in AssetFilenames, size \in TargetSizes,
        collectionId \in TargetCollectionIds, descriptions \in TargetDescriptions}

Returned(fn, value) == [fn |-> fn, value |-> value]

NotYetCalled(fn) == \A i \in DOMAIN returned : returned[i].fn # fn

\* shouldUpdateAsset({ migrationAsset, targetAsset, collections, languages })
CallShouldUpdateAsset ==
    /\ NotYetCalled("shouldUpdateAsset")
    /\ returned' = Append(returned,
                          Returned("shouldUpdateAsset",
                                   ShouldUpdateAsset(assetArg, targetArg, TargetCollections,
                                                     TargetLanguages)))
    /\ UNCHANGED <<assetArg, targetArg>>
    /\ UNCHANGED outsideAsset

\* shouldReplaceBinaryFile({ migrationAsset, targetAsset })
CallShouldReplaceBinaryFile ==
    /\ NotYetCalled("shouldReplaceBinaryFile")
    /\ returned' = Append(returned,
                          Returned("shouldReplaceBinaryFile",
                                   ShouldReplaceBinaryFile(assetArg, targetArg)))
    /\ UNCHANGED <<assetArg, targetArg>>
    /\ UNCHANGED outsideAsset

InitAsset ==
    /\ WorkflowIdle
    /\ ImportIdle
    /\ TransformIdle
    /\ ExportContextIdle
    /\ ElementsIdle
    /\ ValueToStoreIdle
    /\ FlattenIdle
    /\ assetArg \in MigrationAssetArgs
    /\ targetArg \in TargetAssetArgs
    /\ returned = <<>>

NextAsset ==
    \/ CallShouldUpdateAsset
    \/ CallShouldReplaceBinaryFile

SpecAsset == InitAsset /\ [][NextAsset]_vars

-----------------------------------------------------------------------------
(* Element transforms: importTransforms (src/unnamed/part_003) and           *)
(* exportTransforms (src/lib/translation/transforms/export-transforms.ts)    *)

\* a value an element carries: undefined, null, a number, an array or an HTML string
NoValue == [kind |-> "undefined", number |-> 0, array |-> <<>>, html |-> <<>>]

NullValue == [kind |-> "null", number |-> 0, array |-> <<>>, html |-> <<>>]

NumberValue(n) == [kind |-> "number", number |-> n, array |-> <<>>, html |-> <<>>]

ArrayValue(elements) == [kind |-> "array", number |-> 0, array |-> elements, html |-> <<>>]

\* a rich text value: an HTML string, held as its segments
HtmlValue(segments) == [kind |-> "html", number |-> 0, array |-> <<>>, html |-> segments]

\* JavaScript truthiness of a value: undefined, null and 0 are falsy, an array is truthy
IsTruthy(value) ==
    CASE value.kind \in {"undefined", "null"} -> FALSE
      [] value.kind = "number" -> value.number # 0
      [] OTHER -> TRUE

\* parseArrayValue(value): no value is the empty array
ParseArrayValue(value) == IF value.kind = "array" THEN value.array ELSE <<>>

\* data.value?.toString() ?? '' of a rich text value
RichTextHtml(value) == IF value.kind = "html" THEN value.html ELSE <<>>

\* a reference object: { codename }, { id } or { external_id }
ReferenceBy(key, identifier) == [by |-> key, ref |-> identifier]

\* what a transform call ended with
NotTransformed ==
    [status |-> "none", value |-> NoValue, mentions |-> <<>>, components |-> <<>>]

TransformReturns(value) ==
    [status |-> "returned", value |-> value, mentions |-> <<>>, components |-> <<>>]

TransformThrows(mentions) ==
    [status |-> "threw", value |-> NoValue, mentions |-> mentions, components |-> <<>>]

\* codenames of content items that element values refer to
ReferencedItemCodenames == {"home", "about", "news"}

\* the external id the import context assigns to an item that is not in the target
ExternalIdToUse(codename) == "ext_" \o codename

\* the state of an item in the target environment, as the import context holds it
ItemStateInTargetEnvironment(codename, exists) ==
    [codename |-> codename,
     item |-> [exists |-> exists, id |-> IF exists THEN "id_" \o codename ELSE Undefined],
     externalIdToUse |-> ExternalIdToUse(codename)]

\* importContext.categorizedItems.getItemStateInTargetEnvironment(codename)
GetItemStateInTargetEnvironment(context, codename) == context.itemStates[codename]

\* mutant: every linked item is referenced by its codename
ReferenceByCodenameOnly(itemState) == ReferenceBy("codename", itemState.codename)

\* the body of the loop of importTransforms.modular_content
LinkedItemReference(itemState) ==
    IF itemState.item.exists
    THEN ReferenceBy("codename", itemState.codename)
    ELSE ReferenceBy("external_id", itemState.externalIdToUse)

\* importTransforms.modular_content: the value of the linked items element
ImportModularContentValue(value, context) ==
    LET linkedItemCodenames == ParseArrayValue(value)
    IN  [i \in DOMAIN linkedItemCodenames |->
            LinkedItemReference(GetItemStateInTargetEnvironment(context, linkedItemCodenames[i]))]

\* the import contexts the transforms are checked with: which of the
\* referenced items exist in the target environment
ItemStatesChoices ==
    {[codename \in ReferencedItemCodenames |->
        ItemStateInTargetEnvironment(codename, codename \in existing)] :
            existing \in SUBSET ReferencedItemCodenames}

NoImportContext == [itemStates |-> <<>>, importedAssets |-> <<>>]

NoExportContext == [itemStates |-> <<>>, assetStates |-> <<>>]

\* element values holding up to MaxReferences references out of a set
RECURSIVE ArraysOver(_, _)
ArraysOver(elements, n) ==
    IF n = 0 THEN {<<>>}
    ELSE LET shorter == ArraysOver(elements, n - 1)
         IN  shorter \cup {Append(a, e) : a \in {b \in shorter : Len(b) = n - 1}, e \in elements}

TransformInput(type, value, importCtx, exportCtx) ==
    [type |-> type, value |-> value, importContext |-> importCtx, exportContext |-> exportCtx]

(* Rich text: an HTML string is modelled as a sequence of tokens, a rich text  *)
(* value as a sequence of segments that are either object tags or other text *)

Quote == "\""

\* name="value" inside a tag
Attribute(name, value) == name \o <<"=", Quote>> \o value \o <<Quote>>

\* String.prototype.indexOf: where the pattern first occurs in the text, 0 when nowhere
IndexOfText(text, pattern) ==
    LET places == {i \in 1..(Len(text) - Len(pattern) + 1) :
                      SubSeq(text, i, i + Len(pattern) - 1) = pattern}
    IN  IF places = {} THEN 0 ELSE CHOOSE i \in places : \A j \in places : i <= j

\* String.prototype.includes
Includes(text, pattern) == IndexOfText(text, pattern) # 0

\* String.prototype.replace with a string pattern: the first occurrence only
ReplaceFirst(text, pattern, replacement) ==
    LET at == IndexOfText(text, pattern)
    IN  IF at = 0 THEN text
        ELSE SubSeq(text, 1, at - 1) \o replacement
                \o SubSeq(text, at + Len(pattern), Len(text))

\* String.prototype.replaceAll('_', '-')
ReplaceUnderscores(text) == [i \in DOMAIN text |-> IF text[i] = "_" THEN "-" ELSE text[i]]

\* text.replace(/\s+/g, ' ')
RECURSIVE ReplaceMultipleSpacesWithSingleOne(_)
ReplaceMultipleSpacesWithSingleOne(text) ==
    IF Len(text) < 2 THEN text
    ELSE LET front == ReplaceMultipleSpacesWithSingleOne(SubSeq(text, 1, Len(text) - 1))
             last == text[Len(text)]
         IN  IF last = " " /\ front[Len(front)] = " " THEN front ELSE Append(front, last)

\* the tokens of a string, written out
RECURSIVE JoinTokens(_)
JoinTokens(text) == IF text = <<>> THEN "" ELSE text[1] \o JoinTokens(Tail(text))

\* groups of hexadecimal digits as they occur in a UUID
HexGroups8 == {"6f1a2b3c"}

HexGroups4 == {"1d5e", "4a6b", "9c7d", "0000"}

\* a third group starting with a version digit, a fourth starting with a variant digit
VersionGroups == {"1d5e", "4a6b"}

VariantGroups == {"9c7d"}

HexGroups12 == {"0a1b2c3d4e5f"}

\* validate(uuidCandidate) of the uuid package
Validate(text) ==
    /\ Len(text) = 9
    /\ text[1] \in HexGroups8
    /\ text[3] \in HexGroups4
    /\ text[5] \in VersionGroups
    /\ text[7] \in VariantGroups
    /\ text[9] \in HexGroups12
    /\ \A i \in {2, 4, 6, 8} : text[i] = "-"

\* uuidByString(codename): the UUID derived from a hash of the string
UuidByString(text) == <<"uuid5:" \o JoinTokens(text)>>

ConvertComponentCodenameToId(codename) ==
    LET uuidCandidate == ReplaceUnderscores(codename)
    IN  IF ~Validate(uuidCandidate) THEN UuidByString(codename) ELSE uuidCandidate

TypeAttribute == Attribute(<<"type">>, <<"application/kenticocloud">>)

DataTypeAttribute(type) == Attribute(<<"data", "-", "type">>, <<type>>)

DataRelAttribute(rel) == Attribute(<<"data", "-", "rel">>, <<rel>>)

\* <object type="application/kenticocloud" data-type="item" data-rel=".." data-codename=".."></object>
ObjectTag(rel, codename) ==
    <<"<", "object", " ">> \o TypeAttribute \o <<" ">> \o DataTypeAttribute("item") \o <<" ">>
        \o DataRelAttribute(rel) \o <<" ">>
        \o Attribute(<<"data", "-", "codename">>, codename)
        \o <<">", "</", "object", ">">>

\* the value of the attribute in the tag, the empty text when the tag has no such attribute
AttributeValue(tag, name) ==
    LET opening == name \o <<"=", Quote>>
        at == IndexOfText(tag, opening)
        rest == SubSeq(tag, at + Len(opening), Len(tag))
        closing == IndexOfText(rest, <<Quote>>)
    IN  IF at = 0 \/ closing = 0 THEN <<>> ELSE SubSeq(rest, 1, closing - 1)

\* objectTag.match(this.richTextHelper.rteRegexes.dataCodenameRegex)
DataCodenameMatch(objectTag) == AttributeValue(objectTag, <<"data", "-", "codename">>)

IsComponentTag(objectTag) ==
    /\ Includes(objectTag, TypeAttribute)
    /\ Includes(objectTag, DataTypeAttribute("item"))
    /\ DataCodenameMatch(objectTag) # <<>>
    /\ Includes(objectTag, DataRelAttribute("component"))

\* the callback replaceAll(objectRegex, ...) runs on one object tag
ProcessObjectTag(objectTag) ==
    LET codename == DataCodenameMatch(objectTag)
        withoutRel == ReplaceFirst(objectTag, DataRelAttribute("component"), <<>>)
        asComponent == ReplaceFirst(withoutRel, DataTypeAttribute("item"),
                                    DataTypeAttribute("component"))
        withDataId == ReplaceFirst(asComponent, <<"data", "-", "codename">>,
                                   <<"data", "-", "id">>)
        withId == ReplaceFirst(withDataId, codename, ConvertComponentCodenameToId(codename))
    IN  ReplaceMultipleSpacesWithSingleOne(IF IsComponentTag(objectTag) THEN withId
                                           ELSE objectTag)

\* a segment of a rich text value
ObjectSegment(tag) == [object |-> TRUE, text |-> tag]

TextSegment(text) == [object |-> FALSE, text |-> text]

\* processImportRichTextHtmlValueAsync: processedHtml, up to the object tags
ProcessedHtml(segments) ==
    [i \in DOMAIN segments |->
        IF segments[i].object THEN ObjectSegment(ProcessObjectTag(segments[i].text))
        ELSE segments[i]]

\* processImportRichTextHtmlValueAsync: componentCodenames
RECURSIVE ComponentCodenamesOf(_)
ComponentCodenamesOf(segments) ==
    IF segments = <<>> THEN <<>>
    ELSE LET front == ComponentCodenamesOf(SubSeq(segments, 1, Len(segments) - 1))
             last == segments[Len(segments)]
         IN  IF last.object /\ IsComponentTag(last.text)
             THEN Append(front, DataCodenameMatch(last.text)) ELSE front

\* the component contract importTransforms.rich_text builds for a component item
ComponentContract(componentItem) ==
    [id |-> ConvertComponentCodenameToId(componentItem.codename), type |-> componentItem.type]

\* codenames of the component items of the source data
ComponentItemCodenames ==
    {<<"teaser">>,
     <<"my", "_", "teaser">>,
     <<"item">>,
     <<"type">>,
     <<"component">>,
     <<"6f1a2b3c", "_", "1d5e", "_", "4a6b", "_", "9c7d", "_", "0a1b2c3d4e5f">>,
     <<"6f1a2b3c", "_", "1d5e", "_", "0000", "_", "9c7d", "_", "0a1b2c3d4e5f">>,
     <<"6f1a2b3c", "_", "1d5e">>}

\* data.sourceItems.find((m) => m.system.codename === componentCodename)
SourceComponentItem(codename) == [codename |-> codename, type |-> "teaser_type"]

\* this.richTextHelper.linkCodenameAttributeName
LinkCodenameAttributeName == <<"data", "-", "manager", "-", "link", "-", "codename">>

\* <a data-manager-link-codename="..">link text</a>
LinkTag(codename) ==
    <<"<", "a", " ">> \o Attribute(LinkCodenameAttributeName, codename)
        \o <<">", "link", " ", "text", "</", "a", ">">>

\* a segment that this.richTextHelper.rteRegexes.linkRegex matches
IsLinkTag(text) == Len(text) > 1 /\ text[1] = "<" /\ text[2] = "a"

\* linkTag.match(this.richTextHelper.rteRegexes.csvmLinkCodenameRegex)
LinkCodenameMatch(linkTag) == AttributeValue(linkTag, LinkCodenameAttributeName)

\* the id of the content item an import of this run has created or updated
ImportedItemId(codename) == "id_" \o codename

\* the item a link is rewritten to: the one imported in this run, else the one
\* of the target environment, else none
LinkedItemId(codename, context, imported) ==
    IF codename \in imported THEN ImportedItemId(codename)
    ELSE IF GetItemStateInTargetEnvironment(context, codename).item.exists
    THEN GetItemStateInTargetEnvironment(context, codename).item.id
    ELSE Undefined

\* the callback replaceAll(linkRegex, ...) runs on one link tag; the link tags
\* of the model have no target, rel or data-email-address attribute
ProcessLinkTag(linkTag, context, imported) ==
    LET codename == LinkCodenameMatch(linkTag)
        id == LinkedItemId(JoinTokens(codename), context, imported)
        withId == ReplaceFirst(linkTag, codename, <<id>>)
        withDataItemId == ReplaceFirst(withId, LinkCodenameAttributeName,
                                       <<"data", "-", "item", "-", "id">>)
    IN  ReplaceMultipleSpacesWithSingleOne(
            IF codename # <<>> /\ id # Undefined THEN withDataItemId ELSE linkTag)

\* processImportRichTextHtmlValueAsync: the pass over the links, after the
\* pass over the object tags
ProcessLinks(segments, context, imported) ==
    [i \in DOMAIN segments |->
        IF IsLinkTag(segments[i].text)
        THEN TextSegment(ProcessLinkTag(segments[i].text, context, imported))
        ELSE segments[i]]

\* the codenames the pass over the links logs a warning for, in order
RECURSIVE LinkWarnings(_, _, _)
LinkWarnings(segments, context, imported) ==
    IF segments = <<>> THEN <<>>
    ELSE LET front == LinkWarnings(SubSeq(segments, 1, Len(segments) - 1), context, imported)
             last == segments[Len(segments)].text
             codename == JoinTokens(LinkCodenameMatch(last))
         IN  IF /\ IsLinkTag(last)
                /\ LinkCodenameMatch(last) # <<>>
                /\ LinkedItemId(codename, context, imported) = Undefined
             THEN Append(front, codename) ELSE front

\* rich text values with links to content items
LinkCodenames == {<<"home">>, <<"about">>}

RichTextLinkInputs ==
    {TransformInput("import.rich_text",
                    HtmlValue(<<TextSegment(<<"<p>", "See", "</p>">>)>>
                                 \o [i \in DOMAIN codenames |-> TextSegment(LinkTag(codenames[i]))]),
                    [itemStates |-> states, importedAssets |-> <<>>], NoExportContext) :
        codenames \in ArraysOver(LinkCodenames, MaxReferences) \ {<<>>},
        states \in ItemStatesChoices}

RichTextImportInputs ==
    {TransformInput("import.rich_text",
                    HtmlValue(<<TextSegment(<<"<p>", "See", " ", "the", " ", "type", "</p>">>),
                                 ObjectSegment(ObjectTag(rel, codename))>>),
                    NoImportContext, NoExportContext) :
        rel \in {"component", "link"}, codename \in ComponentItemCodenames}

\* numbers a number element holds
ElementNumbers == {0, 1, 42, -7}

\* exportTransforms.number
ExportNumber(value) ==
    CASE value.kind \in {"undefined", "null"} -> TransformReturns(NoValue)
      [] value.kind = "array" -> TransformThrows(<<>>)
      [] value.kind = "number" /\ value.number = 0 -> TransformReturns(NumberValue(0))
      [] OTHER -> TransformReturns(NumberValue(value.number))

\* importTransforms.number: value: data.value ? +data.value : null
ImportNumber(value) ==
    TransformReturns(IF IsTruthy(value) THEN NumberValue(value.number) ELSE NullValue)

\* number elements to export, to import, and to export and then import
NumberInputs ==
    {TransformInput("export.number", value, NoImportContext, NoExportContext) :
        value \in {NoValue, NullValue, ArrayValue(<<>>)} \cup {NumberValue(n) : n \in ElementNumbers}}
    \cup {TransformInput("import.number", value, NoImportContext, NoExportContext) :
        value \in {NoValue} \cup {NumberValue(n) : n \in ElementNumbers}}
    \cup {TransformInput("roundtrip.number", value, NoImportContext, NoExportContext) :
        value \in {NoValue, NullValue} \cup {NumberValue(n) : n \in ElementNumbers}}

ModularContentImportInputs ==
    {TransformInput("import.modular_content", value,
                    [itemStates |-> states, importedAssets |-> <<>>], NoExportContext) :
        value \in {NoValue} \cup {ArrayValue(a) : a \in ArraysOver(ReferencedItemCodenames, MaxReferences)},
        states \in ItemStatesChoices}

\* codenames of assets that asset element values refer to
ReferencedAssetCodenames == {"hero", "Hero", "logo", "banner"}

\* an entry of importContext.importedAssets
ImportedAsset(codename, id) == [original |-> [codename |-> codename], imported |-> [id |-> id]]

\* the assets an import may have imported before the element is transformed
ImportedAssets ==
    {ImportedAsset("hero", "asset_1"), ImportedAsset("Logo", "asset_2"),
     ImportedAsset(Undefined, "asset_3"), ImportedAsset("Hero", "asset_4")}

\* mutant: the codenames are compared as they are written
IsSameCodename(s, assetCodename) ==
    s.original.codename # Undefined /\ s.original.codename = assetCodename

\* (s) => s.original.codename?.toLowerCase() === assetCodename.toLowerCase()
IsImportedAssetOf(s, assetCodename) ==
    s.original.codename # Undefined /\ Lower(s.original.codename) = Lower(assetCodename)

\* data.importContext.importedAssets.find(...): index of the asset found, 0 when none
FindImportedAsset(context, assetCodename) ==
    FirstIndex({i \in DOMAIN context.importedAssets :
                   IsImportedAssetOf(context.importedAssets[i], assetCodename)})

\* importTransforms.asset: the loop over the codenames, with assetReferences
\* and the warnings logged so far
RECURSIVE ImportAssetLoop(_, _)
ImportAssetLoop(assetCodenames, context) ==
    IF assetCodenames = <<>> THEN [assetReferences |-> <<>>, warned |-> <<>>]
    ELSE LET before == ImportAssetLoop(SubSeq(assetCodenames, 1, Len(assetCodenames) - 1),
                                       context)
             assetCodename == assetCodenames[Len(assetCodenames)]
             found == FindImportedAsset(context, assetCodename)
         IN  IF found = 0
             THEN [before EXCEPT !.warned = Append(@, assetCodename)]
             ELSE [before EXCEPT !.assetReferences =
                      Append(@, ReferenceBy("id", context.importedAssets[found].imported.id))]

AssetImportInputs ==
    {TransformInput("import.asset", value,
                    [itemStates |-> <<>>, importedAssets |-> imported], NoExportContext) :
        value \in {NoValue} \cup {ArrayValue(a) : a \in ArraysOver(ReferencedAssetCodenames, MaxReferences)},
        imported \in InjectiveSeqs(ImportedAssets, MaxImportedAssets)}

\* ids of the items and assets that exported element values refer to
ReferencedIds == {"id_a", "id_b", "id_c"}

\* the codename of the item or asset that the source environment holds under an id
SourceCodename(id) == "codename_of_" \o id

\* an entry of the item or asset states of the export context: the state and
\* the item or asset, undefined when the source environment does not have it
StateInSourceEnvironment(id, state) ==
    [id |-> id, state |-> state,
     entity |-> [exists |-> state = "exists",
                 codename |-> IF state = "exists" THEN SourceCodename(id) ELSE Undefined]]

\* state tables of an export context: every id is known to exist, known not to
\* exist, or has no entry
StateTables ==
    {SelectSeq([i \in 1..Len(order) |-> StateInSourceEnvironment(order[i], known[order[i]])],
               LAMBDA s : s.state # "absent") :
        order \in {<<"id_a", "id_b", "id_c">>},
        known \in [ReferencedIds -> {"exists", "doesNotExists", "absent"}]}

\* itemStates.find((m) => m.id === id) / assetStates.find((m) => m.id === id)
FindState(states, id) == FirstIndex({i \in DOMAIN states : states[i].id = id})

\* isNotUndefined
IsNotUndefined(id) == id # Undefined

\* mutant: a state without item or asset is not taken as missing
FirstWithoutState(states, ids) ==
    FirstIndex({i \in DOMAIN ids : FindState(states, ids[i]) = 0})

\* the first id for which the lookup throws or the state holds no item or asset,
\* as an index of the ids; 0 when the callback of map returns for every id
FirstMissing(states, ids) ==
    FirstIndex({i \in DOMAIN ids :
                   \/ FindState(states, ids[i]) = 0
                   \/ ~states[FindState(states, ids[i])].entity.exists})

\* exportTransforms.asset, .modular_content and .subpages, which differ in the
\* state table they look the ids up in
ExportReferences(value, states) ==
    IF ~IsTruthy(value) THEN TransformReturns(ArrayValue(<<>>))
    ELSE IF value.kind # "array" THEN TransformThrows(<<>>)
    ELSE LET ids == SelectSeq(value.array, IsNotUndefined)
             missing == FirstMissing(states, ids)
         IN  IF missing # 0 THEN TransformThrows(<<ids[missing]>>)
             ELSE TransformReturns(ArrayValue(
                     [i \in DOMAIN ids |->
                         ReferenceBy("codename",
                                     states[FindState(states, ids[i])].entity.codename)]))

ReferenceExportTypes == {"export.asset", "export.modular_content", "export.subpages"}

ReferenceExportInputs ==
    {TransformInput(type, value, NoImportContext,
                    IF type = "export.asset" THEN [itemStates |-> <<>>, assetStates |-> states]
                    ELSE [itemStates |-> states, assetStates |-> <<>>]) :
        type \in ReferenceExportTypes,
        value \in {NoValue, NumberValue(1)}
                     \cup {ArrayValue(a) : a \in ArraysOver(ReferencedIds, MaxReferences)},
        states \in StateTables}

TransformInputs == ModularContentImportInputs \cup RichTextImportInputs \cup NumberInputs
    \cup RichTextLinkInputs
    \cup ReferenceExportInputs
    \cup AssetImportInputs

TransformFrame == UNCHANGED <<importContext, exportContext, transformType, elementValue>>

\* an item of the data is imported before the element that refers to it is transformed
ImportItemFirst(codename) ==
    /\ tpc = "start"
    /\ transformType \in {"import.modular_content", "import.rich_text"}
    /\ codename \notin importedSoFar
    /\ importedSoFar' = importedSoFar \cup {codename}
    /\ UNCHANGED <<transformed, warnings, tpc>>
    /\ TransformFrame
    /\ UNCHANGED outsideTransform

\* importTransforms.modular_content
ImportModularContent ==
    /\ tpc = "start"
    /\ transformType = "import.modular_content"
    /\ transformed' = TransformReturns(ArrayValue(ImportModularContentValue(elementValue,
                                                                             importContext)))
    /\ tpc' = "done"
    /\ UNCHANGED <<importedSoFar, warnings>>
    /\ TransformFrame
    /\ UNCHANGED outsideTransform

\* importTransforms.rich_text
ImportRichText ==
    /\ tpc = "start"
    /\ transformType = "import.rich_text"
    /\ LET segments == RichTextHtml(elementValue)
           componentCodenames == ComponentCodenamesOf(segments)
       IN  /\ transformed' =
              [TransformReturns(HtmlValue(ProcessLinks(ProcessedHtml(segments), importContext,
                                                       importedSoFar))) EXCEPT
                  !.components = [i \in DOMAIN componentCodenames |->
                                     ComponentContract(SourceComponentItem(componentCodenames[i]))]]
           /\ warnings' = warnings \o LinkWarnings(segments, importContext, importedSoFar)
    /\ tpc' = "done"
    /\ UNCHANGED importedSoFar
    /\ TransformFrame
    /\ UNCHANGED outsideTransform

\* exportTransforms.number is called; in a round trip its result is imported next
ExportNumberElement ==
    /\ tpc = "start"
    /\ transformType \in {"export.number", "roundtrip.number"}
    /\ transformed' = ExportNumber(elementValue)
    /\ tpc' = IF transformType = "roundtrip.number" /\ transformed'.status = "returned"
              THEN "exported" ELSE "done"
    /\ UNCHANGED <<importedSoFar, warnings>>
    /\ TransformFrame
    /\ UNCHANGED outsideTransform

\* importTransforms.number is called with a portable value or with the exported one
ImportNumberElement ==
    /\ \/ tpc = "start" /\ transformType = "import.number"
             /\ transformed' = ImportNumber(elementValue)
       \/ tpc = "exported" /\ transformType = "roundtrip.number"
             /\ transformed' = ImportNumber(transformed.value)
    /\ tpc' = "done"
    /\ UNCHANGED <<importedSoFar, warnings>>
    /\ TransformFrame
    /\ UNCHANGED outsideTransform

\* importTransforms.asset
ImportAssetElement ==
    /\ tpc = "start"
    /\ transformType = "import.asset"
    /\ LET loop == ImportAssetLoop(ParseArrayValue(elementValue), importContext)
       IN  /\ transformed' = TransformReturns(ArrayValue(loop.assetReferences))
           /\ warnings' = warnings \o loop.warned
    /\ tpc' = "done"
    /\ UNCHANGED importedSoFar
    /\ TransformFrame
    /\ UNCHANGED outsideTransform

\* exportTransforms.asset
ExportAssetElement ==
    /\ tpc = "start"
    /\ transformType = "export.asset"
    /\ transformed' = ExportReferences(elementValue, exportContext.assetStates)
    /\ tpc' = "done"
    /\ UNCHANGED <<importedSoFar, warnings>>
    /\ TransformFrame
    /\ UNCHANGED outsideTransform

\* exportTransforms.modular_content
ExportModularContentElement ==
    /\ tpc = "start"
    /\ transformType = "export.modular_content"
    /\ transformed' = ExportReferences(elementValue, exportContext.itemStates)
    /\ tpc' = "done"
    /\ UNCHANGED <<importedSoFar, warnings>>
    /\ TransformFrame
    /\ UNCHANGED outsideTransform

\* exportTransforms.subpages
ExportSubpagesElement ==
    /\ tpc = "start"
    /\ transformType = "export.subpages"
    /\ transformed' = ExportReferences(elementValue, exportContext.itemStates)
    /\ tpc' = "done"
    /\ UNCHANGED <<importedSoFar, warnings>>
    /\ TransformFrame
    /\ UNCHANGED outsideTransform

InitTransform ==
    /\ WorkflowIdle
    /\ ImportIdle
    /\ AssetIdle
    /\ ExportContextIdle
    /\ ElementsIdle
    /\ ValueToStoreIdle
    /\ FlattenIdle
    /\ \E input \in TransformInputs :
          /\ transformType = input.type
          /\ elementValue = input.value
          /\ importContext = input.importContext
          /\ exportContext = input.exportContext
    /\ importedSoFar = {}
    /\ transformed = NotTransformed
    /\ warnings = <<>>
    /\ tpc = "start"

NextTransform ==
    \/ \E codename \in ReferencedItemCodenames : ImportItemFirst(codename)
    \/ ImportModularContent
    \/ ImportRichText
    \/ ExportNumberElement
    \/ ImportNumberElement
    \/ ImportAssetElement
    \/ ExportAssetElement
    \/ ExportModularContentElement
    \/ ExportSubpagesElement

SpecTransform == InitTransform /\ [][NextTransform]_vars

-----------------------------------------------------------------------------
(* ExportContextService.getExportContextAsync (src/unnamed/part_007)         *)

\* ids of the assets that exported items refer to
ReferencedAssetIds == {"asset_x", "asset_y"}

\* uniqueStringFilter: the first occurrence of every string
RECURSIVE UniqueStrings(_)
UniqueStrings(strings) ==
    IF strings = <<>> THEN <<>>
    ELSE LET front == UniqueStrings(SubSeq(strings, 1, Len(strings) - 1))
             last == strings[Len(strings)]
         IN  IF last \in Range(front) THEN front ELSE Append(front, last)

\* mutant: only the referenced items are checked
ReferencedItemIdsOnly == UniqueStrings(referencedData.itemIds)

ItemIdsToCheckInTargetEnv == UniqueStrings(referencedData.itemIds \o preparedExportItems)

AssetIdsToCheckInTargetEnv == referencedData.assetIds

\* a view request by id and what the source environment answered
ViewRequest(type, id, outcome) == [type |-> type, id |-> id, outcome |-> outcome]

\* the requests of a type answered so far
RequestsOf(type) == SelectSeq(viewRequests, LAMBDA r : r.type = type)

\* what the Management API answers a view request: the entity, 404, or another error
ViewOutcomesById == {"found", "notFound", "error"}

\* mutant: a 404 is thrown on like any other error
RethrowsEveryError(outcome) == outcome # "found"

\* catch (error) { if (!is404Error(error)) { throw error; } } of processAsync
ViewByIdRethrows(outcome) == outcome = "error"

\* getItemStatesAsync / getAssetStatesAsync: one state per id of the list
StatesOf(ids, fetched) ==
    [i \in DOMAIN ids |->
        StateInSourceEnvironment(ids[i], IF ids[i] \in Range(fetched) THEN "exists"
                                         ELSE "doesNotExists")]

\* the lookup found no state and throws 'Invalid state for ...'
LookupThrows == [id |-> Undefined, state |-> "throws",
                 entity |-> [exists |-> FALSE, codename |-> Undefined]]

\* getItemStateInSourceEnvironment / getAssetStateInSourceEnvironment of the context
GetStateInSourceEnvironment(states, id) ==
    IF FindState(states, id) = 0 THEN LookupThrows ELSE states[FindState(states, id)]

ExportContextFrame == UNCHANGED <<preparedExportItems, referencedData>>

\* processAsync of getContentItemsByIdsAsync: the next item id is viewed
ViewContentItemById(outcome) ==
    /\ epc = "items"
    /\ Len(RequestsOf("contentItem")) < Len(ItemIdsToCheckInTargetEnv)
    /\ LET id == ItemIdsToCheckInTargetEnv[Len(RequestsOf("contentItem")) + 1]
       IN  /\ viewRequests' = Append(viewRequests, ViewRequest("contentItem", id, outcome))
           /\ fetchedItems' = IF outcome = "found" THEN Append(fetchedItems, id)
                              ELSE fetchedItems
    /\ epc' = IF ViewByIdRethrows(outcome) THEN "failed" ELSE epc
    /\ UNCHANGED <<fetchedAssets, itemStates, assetStates>>
    /\ ExportContextFrame
    /\ UNCHANGED outsideExportContext

\* getItemStatesAsync after getContentItemsByIdsAsync has returned
GetItemStates ==
    /\ epc = "items"
    /\ Len(RequestsOf("contentItem")) = Len(ItemIdsToCheckInTargetEnv)
    /\ itemStates' = StatesOf(ItemIdsToCheckInTargetEnv, fetchedItems)
    /\ epc' = "assets"
    /\ UNCHANGED <<viewRequests, fetchedItems, fetchedAssets, assetStates>>
    /\ ExportContextFrame
    /\ UNCHANGED outsideExportContext

\* processAsync of getAssetsByIdsAsync: the next asset id is viewed
ViewAssetById(outcome) ==
    /\ epc = "assets"
    /\ Len(RequestsOf("asset")) < Len(AssetIdsToCheckInTargetEnv)
    /\ LET id == AssetIdsToCheckInTargetEnv[Len(RequestsOf("asset")) + 1]
       IN  /\ viewRequests' = Append(viewRequests, ViewRequest("asset", id, outcome))
           /\ fetchedAssets' = IF outcome = "found" THEN Append(fetchedAssets, id)
                               ELSE fetchedAssets
    /\ epc' = IF ViewByIdRethrows(outcome) THEN "failed" ELSE epc
    /\ UNCHANGED <<fetchedItems, itemStates, assetStates>>
    /\ ExportContextFrame
    /\ UNCHANGED outsideExportContext

\* getAssetStatesAsync after getAssetsByIdsAsync has returned, and the return
\* of the export context
GetAssetStates ==
    /\ epc = "assets"
    /\ Len(RequestsOf("asset")) = Len(AssetIdsToCheckInTargetEnv)
    /\ assetStates' = StatesOf(AssetIdsToCheckInTargetEnv, fetchedAssets)
    /\ epc' = "returned"
    /\ UNCHANGED <<viewRequests, fetchedItems, fetchedAssets, itemStates>>
    /\ ExportContextFrame
    /\ UNCHANGED outsideExportContext

\* the state after prepareExportItemsAsync and extractReferencedDataFromExportItems:
\* an item may be prepared in several languages and may refer to prepared items
InitExportContext ==
    /\ WorkflowIdle
    /\ ImportIdle
    /\ AssetIdle
    /\ TransformIdle
    /\ ElementsIdle
    /\ ValueToStoreIdle
    /\ FlattenIdle
    /\ preparedExportItems \in ArraysOver(ReferencedIds, MaxItems)
    /\ \E itemIds \in InjectiveSeqs(ReferencedIds, MaxReferences),
          assetIds \in InjectiveSeqs(ReferencedAssetIds, MaxReferences) :
             referencedData = [itemIds |-> itemIds, assetIds |-> assetIds]
    /\ viewRequests = <<>>
    /\ fetchedItems = <<>>
    /\ fetchedAssets = <<>>
    /\ itemStates = <<>>
    /\ assetStates = <<>>
    /\ epc = "items"

NextExportContext ==
    \/ \E outcome \in ViewOutcomesById : ViewContentItemById(outcome)
    \/ GetItemStates
    \/ \E outcome \in ViewOutcomesById : ViewAssetById(outcome)
    \/ GetAssetStates

SpecExportContext == InitExportContext /\ [][NextExportContext]_vars

-----------------------------------------------------------------------------
(* exportManager.getMigrationElements (src/unnamed/part_002)                 *)

\* codenames of the elements of a content type, in the order of the < of
\* JavaScript strings: UTF-16 code units, a digit before the underscore
ElementCodenamesInOrder == <<"a1_teaser", "a_teaser", "body", "title">>

\* a.codename < b.codename
CodenameIsLess(a, b) ==
    LET Position(str) == CHOOSE i \in DOMAIN ElementCodenamesInOrder :
                            ElementCodenamesInOrder[i] = str
    IN  Position(a.codename) < Position(b.codename)

\* an element of the flattened content type
TypeElement(id, codename) == [id |-> id, codename |-> codename, type |-> "number"]

TypeElements ==
    {TypeElement("e_title", "title"), TypeElement("e_body", "body"),
     TypeElement("e_a_teaser", "a_teaser"), TypeElement("e_a1_teaser", "a1_teaser")}

\* an element of the language variant: element.id and value
ItemElement(id, n) == [element |-> [id |-> id], value |-> NumberValue(n)]

ItemElements ==
    {ItemElement("e_title", 1), ItemElement("e_body", 0),
     ItemElement("e_a_teaser", 42), ItemElement("e_a1_teaser", -7)}

\* mutant: the elements are taken in the order of the content type
InOrderOfTheType(typeElements) == typeElements

\* contentType.elements.toSorted(by codename): a stable sort, here by insertion
RECURSIVE ToSortedByCodename(_)
ToSortedByCodename(typeElements) ==
    IF typeElements = <<>> THEN <<>>
    ELSE LET sortedFront == ToSortedByCodename(SubSeq(typeElements, 1, Len(typeElements) - 1))
             last == typeElements[Len(typeElements)]
             keep == CHOOSE k \in 0..Len(sortedFront) :
                        /\ \A i \in 1..k : ~CodenameIsLess(last, sortedFront[i])
                        /\ k < Len(sortedFront) => CodenameIsLess(last, sortedFront[k + 1])
         IN  SubSeq(sortedFront, 1, keep) \o <<last>>
                \o SubSeq(sortedFront, keep + 1, Len(sortedFront))

\* findRequired(elements, (m) => m.element.id === typeElement.id, ...): the
\* index of the element found, 0 when it throws
FindItemElement(elements, typeElement) ==
    FirstIndex({i \in DOMAIN elements : elements[i].element.id = typeElement.id})

\* model[key] = entry on an object whose keys are not integer-like: a new key
\* is inserted last, a key the object has keeps its place
SetProperty(model, key, entry) ==
    IF \E i \in DOMAIN model : model[i].key = key
    THEN [i \in DOMAIN model |-> IF model[i].key = key THEN [key |-> key, entry |-> entry]
                                 ELSE model[i]]
    ELSE Append(model, [key |-> key, entry |-> entry])

\* getValueToStoreFromElement for a number element
GetValueToStoreFromElement(itemElement) == ExportNumber(itemElement.value).value

ElementsReturned(model) == [status |-> "returned", model |-> model, mentions |-> <<>>]

ElementsThrew(codename) == [status |-> "threw", model |-> <<>>, mentions |-> <<codename>>]

\* the reduce of getMigrationElements over the sorted type elements
RECURSIVE ReduceToMigrationElements(_, _)
ReduceToMigrationElements(sortedTypeElements, elements) ==
    IF sortedTypeElements = <<>> THEN ElementsReturned(<<>>)
    ELSE LET front == ReduceToMigrationElements(
                          SubSeq(sortedTypeElements, 1, Len(sortedTypeElements) - 1), elements)
             typeElement == sortedTypeElements[Len(sortedTypeElements)]
             found == FindItemElement(elements, typeElement)
         IN  IF front.status = "threw" THEN front
             ELSE IF found = 0 THEN ElementsThrew(typeElement.codename)
             ELSE ElementsReturned(
                     SetProperty(front.model, typeElement.codename,
                                 [type |-> typeElement.type,
                                  value |-> GetValueToStoreFromElement(elements[found])]))

\* getMigrationElements(context, contentType, elements)
GetMigrationElements ==
    /\ mpc = "start"
    /\ migrationElements' =
          ReduceToMigrationElements(ToSortedByCodename(contentTypeElements), variantElements)
    /\ mpc' = "done"
    /\ UNCHANGED <<contentTypeElements, variantElements>>
    /\ UNCHANGED outsideElements

\* a content type lists its elements, and a variant its values, in any order;
\* a variant may lack elements of the type and hold others
InitElements ==
    /\ WorkflowIdle
    /\ ImportIdle
    /\ AssetIdle
    /\ TransformIdle
    /\ ExportContextIdle
    /\ ValueToStoreIdle
    /\ FlattenIdle
    /\ contentTypeElements \in InjectiveSeqs(TypeElements, MaxElements)
    /\ variantElements \in InjectiveSeqs(ItemElements, MaxElements)
    /\ migrationElements = [status |-> "none", model |-> <<>>, mentions |-> <<>>]
    /\ mpc = "start"

NextElements ==
    \/ GetMigrationElements

SpecElements == InitElements /\ [][NextElements]_vars

-----------------------------------------------------------------------------
(* exportManager.getValueToStoreFromElement (src/unnamed/part_002)           *)

\* a taxonomy group or a term of one, with the terms below it
Taxonomy(id, codename, terms) == [id |-> id, codename |-> codename, terms |-> terms]

\* findTaxonomy returns undefined
NoTaxonomy == Taxonomy(Undefined, Undefined, <<>>)

\* environmentData.taxonomies of the source environment: a group with terms
\* three levels deep
SourceTaxonomies ==
    <<Taxonomy("tax_topics", "topics",
               <<Taxonomy("term_sport", "sport",
                          <<Taxonomy("term_ball", "ball_games",
                                     <<Taxonomy("term_tennis", "tennis", <<>>)>>)>>),
                 Taxonomy("term_art", "art", <<>>)>>)>>

\* findTaxonomy(termId, taxonomy): terms.find returns the term of this level
\* for which the recursive call is truthy
RECURSIVE FindTaxonomy(_, _)
FindTaxonomy(termId, taxonomy) ==
    IF taxonomy.id = termId THEN taxonomy
    ELSE LET holding == {i \in DOMAIN taxonomy.terms :
                            FindTaxonomy(termId, taxonomy.terms[i]) # NoTaxonomy}
         IN  IF holding = {} THEN NoTaxonomy ELSE taxonomy.terms[FirstIndex(holding)]

\* findRequired(taxonomies, (taxonomy) => taxonomy.id === taxonomyGroupId, ...):
\* the index of the group found, 0 when it throws
FindTaxonomyGroup(taxonomies, taxonomyGroupId) ==
    FirstIndex({i \in DOMAIN taxonomies : taxonomies[i].id = taxonomyGroupId})

\* exportTransforms.taxonomy
ExportTaxonomy(value, element, context) ==
    IF ~IsTruthy(value) THEN TransformReturns(ArrayValue(<<>>))
    ELSE IF value.kind # "array" THEN TransformThrows(<<>>)
    ELSE LET group == FindTaxonomyGroup(context.taxonomies, element.taxonomyGroup)
             taxonomy == context.taxonomies[group]
             ids == SelectSeq(value.array, IsNotUndefined)
             missing == FirstIndex({i \in DOMAIN ids :
                                       FindTaxonomy(ids[i], taxonomy) = NoTaxonomy})
         IN  IF group = 0 THEN TransformThrows(<<element.taxonomyGroup>>)
             ELSE IF missing # 0 THEN TransformThrows(<<ids[missing]>>)
             ELSE TransformReturns(ArrayValue(
                     [i \in DOMAIN ids |->
                         ReferenceBy("codename", FindTaxonomy(ids[i], taxonomy).codename)]))

\* exportTransforms[typeElement.type] for the element types of the model
ExportTransform(element, value, context) ==
    CASE element.type = "number" -> ExportNumber(value)
      [] element.type = "asset" -> ExportReferences(value, context.assetStates)
      [] element.type = "taxonomy" -> ExportTaxonomy(value, element, context)
      [] OTHER -> ExportReferences(value, context.itemStates)

DecimalDigits == <<"0", "1", "2", "3", "4", "5", "6", "7", "8", "9">>

\* the decimal numeral of an integer
RECURSIVE NumberImage(_)
NumberImage(n) ==
    IF n < 0 THEN "-" \o NumberImage(0 - n)
    ELSE IF n < 10 THEN DecimalDigits[n + 1]
    ELSE NumberImage(n \div 10) \o DecimalDigits[(n % 10) + 1]

\* the JSON text of an array of references by id
RECURSIVE ReferencesImage(_)
ReferencesImage(ids) ==
    IF ids = <<>> THEN ""
    ELSE "{\"id\":\"" \o ids[1] \o "\"}"
            \o (IF Len(ids) > 1 THEN "," ELSE "") \o ReferencesImage(Tail(ids))

\* JSON.stringify(value) as the template literal renders it; it returns
\* undefined for undefined
JsonStringify(value) ==
    CASE value.kind = "undefined" -> "undefined"
      [] value.kind = "null" -> "null"
      [] value.kind = "number" -> NumberImage(value.number)
      [] OTHER -> "[" \o ReferencesImage(value.array) \o "]"

\* mutant: the text of the value is used whether or not JSON.stringify returned
JsonValueUnguarded(element) == JsonStringify(element.value)

\* let jsonValue = 'n/a'; try { jsonValue = JSON.stringify(value) } catch { ... }
JsonValue(element) == IF element.stringifies THEN JsonStringify(element.value) ELSE "n/a"

\* extractErrorData(error).message: what the message of the error mentions
ErrorMessage(thrown) == thrown.mentions

ValueStored(value) ==
    [status |-> "returned", value |-> value, codename |-> Undefined, type |-> Undefined,
     jsonValue |-> Undefined, message |-> <<>>]

\* Failed to map value of element '<codename>' of type '<type>'. Value: <json>.
\* Message: <message>
FailedToMapValue(codename, type, jsonValue, message) ==
    [status |-> "threw", value |-> NoValue, codename |-> codename, type |-> type,
     jsonValue |-> jsonValue, message |-> message]

\* getValueToStoreFromElement for an element without components
GetValueToStoreFromElementOfType(element, exportedElement, context) ==
    LET result == ExportTransform(element, exportedElement.value, context)
    IN  IF result.status = "returned" THEN ValueStored(result.value)
        ELSE FailedToMapValue(element.codename, element.type, JsonValue(exportedElement),
                              ErrorMessage(result))

\* an element of the flattened content type; a taxonomy element names its group
StoredTypeElement(codename, type, taxonomyGroup) ==
    [codename |-> codename, type |-> type, taxonomyGroup |-> taxonomyGroup]

\* ids that a taxonomy element value refers to: terms of the three levels, the
\* group itself and an id that no term has
ReferencedTermIds == {"term_sport", "term_ball", "term_tennis", "term_art", "tax_topics", "term_x"}

StoredContext(itemStates_, assetStates_) ==
    [itemStates |-> itemStates_, assetStates |-> assetStates_, taxonomies |-> SourceTaxonomies]

\* whether JSON.stringify accepts the value (it throws for a value that holds
\* a BigInt or refers to itself)
StoredExportElement(value, stringifies) == [value |-> value, stringifies |-> stringifies]

StoredInput(element, exportedElement, context) ==
    [element |-> element, exportElement |-> exportedElement, context |-> context]

StoredReferenceInputs ==
    {StoredInput(StoredTypeElement(codename, type, Undefined),
                 StoredExportElement(value, stringifies), context) :
        codename \in {"teaser", "related"},
        type \in {"number", "asset", "modular_content", "subpages"},
        value \in {NoValue, NullValue, NumberValue(0), NumberValue(42)}
                     \cup {ArrayValue(a) : a \in ArraysOver(ReferencedIds, MaxReferences)},
        stringifies \in BOOLEAN,
        context \in {StoredContext(states, <<>>) : states \in StateTables}
                       \cup {StoredContext(<<>>, states) : states \in StateTables}}

StoredTaxonomyInputs ==
    {StoredInput(StoredTypeElement("topics", "taxonomy", group),
                 StoredExportElement(value, stringifies), StoredContext(<<>>, <<>>)) :
        group \in {"tax_topics", "tax_removed"},
        value \in {NoValue, NumberValue(42)}
                     \cup {ArrayValue(a) : a \in ArraysOver(ReferencedTermIds, MaxReferences)},
        stringifies \in BOOLEAN}

StoredInputs == StoredReferenceInputs \cup StoredTaxonomyInputs

\* getValueToStoreFromElement({ context, contentType, typeElement, exportElement })
GetValueToStore ==
    /\ spc = "start"
    /\ valueToStore' = GetValueToStoreFromElementOfType(storeTypeElement, storeExportElement,
                                                        storeContext)
    /\ spc' = "done"
    /\ UNCHANGED <<storeTypeElement, storeExportElement, storeContext>>
    /\ UNCHANGED outsideValueToStore

InitValueToStore ==
    /\ WorkflowIdle
    /\ ImportIdle
    /\ AssetIdle
    /\ TransformIdle
    /\ ExportContextIdle
    /\ ElementsIdle
    /\ FlattenIdle
    /\ \E input \in StoredInputs :
          /\ storeTypeElement = input.element
          /\ storeExportElement = input.exportElement
          /\ storeContext = input.context
    /\ valueToStore = ValueStored(NoValue)
    /\ spc = "start"

NextValueToStore ==
    \/ GetValueToStore

SpecValueToStore == InitValueToStore /\ [][NextValueToStore]_vars

-----------------------------------------------------------------------------
(* getContentTypeElements (src/unnamed/part_002)                             *)

\* an element of a content type or of a snippet, as the Management API lists
\* it; a snippet element names its snippet, a taxonomy element its group
ContentTypeElement(codename, id, type, snippet, taxonomyGroup) ==
    [codename |-> codename, id |-> id, type |-> type, snippet |-> snippet,
     taxonomyGroup |-> taxonomyGroup]

\* a content type snippet of the environment
ContentTypeSnippet(id, elements) == [id |-> id, elements |-> elements]

ElementsOfMetadataSnippet ==
    <<ContentTypeElement("meta_title", "e_meta_title", "text", Undefined, Undefined),
      ContentTypeElement("meta_hint", "e_meta_hint", "guidelines", Undefined, Undefined),
      ContentTypeElement(Undefined, "e_meta_old", "text", Undefined, Undefined),
      ContentTypeElement("meta_topics", "e_meta_topics", "taxonomy", Undefined, "tax_topics")>>

EnvironmentSnippets == <<ContentTypeSnippet("snippet_metadata", ElementsOfMetadataSnippet)>>

\* the elements a content type is made of
ContentTypeElementUniverse ==
    {ContentTypeElement("title", "e_title", "text", Undefined, Undefined),
     ContentTypeElement("hint", "e_hint", "guidelines", Undefined, Undefined),
     ContentTypeElement(Undefined, "e_old", "text", Undefined, Undefined),
     ContentTypeElement("draft", Undefined, "text", Undefined, Undefined),
     ContentTypeElement("tags", "e_tags", "taxonomy", Undefined, "tax_tags"),
     ContentTypeElement("metadata", "e_metadata", "snippet", "snippet_metadata", Undefined),
     ContentTypeElement("legal", "e_legal", "snippet", "snippet_removed", Undefined)}

\* const excludedFlattenedElements: ElementModels.ElementType[] = ['guidelines']
ExcludedFlattenedElements == {"guidelines"}

ExcludeElement(element) == element.type \in ExcludedFlattenedElements

\* the two `continue` of the loops: !element.codename || !element.id, excludeElement
IsSkipped(element) ==
    \/ element.codename \in {Undefined, ""}
    \/ element.id \in {Undefined, ""}
    \/ ExcludeElement(element)

\* contentTypeSnippets.find((m) => m.id.toLowerCase() === snippet.id?.toLowerCase()):
\* the index of the snippet, 0 when there is none
FindContentTypeSnippet(snippets, snippetElement) ==
    FirstIndex({i \in DOMAIN snippets : Lower(snippets[i].id) = Lower(snippetElement.snippet)})

FlattenedElement(codename, id, type, element) ==
    [codename |-> codename, id |-> id, type |-> type, element |-> element]

\* the inner loop over contentTypeSnippet.elements: the flattened elements are
\* given the element of the outer loop
RECURSIVE FlattenedSnippetElements(_, _)
FlattenedSnippetElements(snippetElements, element) ==
    IF snippetElements = <<>> THEN <<>>
    ELSE LET front == FlattenedSnippetElements(
                          SubSeq(snippetElements, 1, Len(snippetElements) - 1), element)
             snippetElement == snippetElements[Len(snippetElements)]
         IN  IF IsSkipped(snippetElement) THEN front
             ELSE Append(front, FlattenedElement(snippetElement.codename, snippetElement.id,
                                                 snippetElement.type, element))

FlattenReturns(elements) == [status |-> "returned", elements |-> elements]

\* logErrorAndExit: the process ends
FlattenExits == [status |-> "exited", elements |-> <<>>]

\* getContentTypeElements(contentType, contentTypeSnippets)
RECURSIVE GetContentTypeElements(_, _)
GetContentTypeElements(typeElements, snippets) ==
    IF typeElements = <<>> THEN FlattenReturns(<<>>)
    ELSE LET front == GetContentTypeElements(SubSeq(typeElements, 1, Len(typeElements) - 1),
                                             snippets)
             element == typeElements[Len(typeElements)]
             found == FindContentTypeSnippet(snippets, element)
         IN  IF front.status = "exited" \/ IsSkipped(element) THEN front
             ELSE IF element.type # "snippet"
             THEN FlattenReturns(Append(front.elements,
                                        FlattenedElement(element.codename, element.id,
                                                         element.type, element)))
             ELSE IF found = 0 THEN FlattenExits
             ELSE FlattenReturns(front.elements
                                    \o FlattenedSnippetElements(snippets[found].elements, element))

\* elements: getContentTypeElements(contentType, contentTypeSnippets)
FlattenContentType ==
    /\ fpc = "start"
    /\ flattened' = GetContentTypeElements(typeElementsArg, contentTypeSnippets)
    /\ fpc' = "done"
    /\ UNCHANGED <<typeElementsArg, contentTypeSnippets>>
    /\ UNCHANGED outsideFlatten

InitFlatten ==
    /\ WorkflowIdle
    /\ ImportIdle
    /\ AssetIdle
    /\ TransformIdle
    /\ ExportContextIdle
    /\ ElementsIdle
    /\ ValueToStoreIdle
    /\ typeElementsArg \in InjectiveSeqs(ContentTypeElementUniverse, MaxElements)
    /\ contentTypeSnippets = EnvironmentSnippets
    /\ flattened = FlattenReturns(<<>>)
    /\ fpc = "start"

NextFlatten ==
    \/ FlattenContentType

SpecFlatten == InitFlatten /\ [][NextFlatten]_vars

-----------------------------------------------------------------------------
(* Properties of the workflow engine                                         *)

\* the workflowCodename argument matches a workflow of the environment
WorkflowMatches == \E i \in DOMAIN workflows : Lower(workflows[i].codename) = Lower(wfArg)

\* the workflow the codename resolves to: the first one matching
TargetWorkflow ==
    workflows[CHOOSE i \in DOMAIN workflows :
                 /\ Lower(workflows[i].codename) = Lower(wfArg)
                 /\ \A j \in 1..(i - 1) : Lower(workflows[j].codename) # Lower(wfArg)]

TargetIsPublishedStep == WorkflowMatches /\ TargetWorkflow.publishedStep = stepArg

TargetIsArchivedStep == WorkflowMatches /\ TargetWorkflow.archivedStep = stepArg

TargetIsRegularStep ==
    /\ WorkflowMatches
    /\ stepArg \in Range(TargetWorkflow.steps)
    /\ stepArg \notin {TargetWorkflow.publishedStep, TargetWorkflow.scheduledStep,
                       TargetWorkflow.archivedStep}

TargetIsValid == WorkflowMatches /\ stepArg \in AllStepsOf(TargetWorkflow)

WfCallEnded == wpc \in {"done", "failed"}

\* C2: when the target step codename is the published step of the resolved
\* workflow, the call issues exactly one publish call and no unpublish or
\* change-workflow call.
C2_PublishedTargetPublishesOnce ==
    (wpc # "start" /\ TargetIsPublishedStep) =>
        /\ Len(wcalls) = 1
        /\ wcalls[1].op = "publish"
        /\ WfCallEnded

\* C2 witness: a returned call whose target is the published step of the second
\* of two workflows, a step no other workflow calls its published step
C2_Witness ==
    /\ wpc = "done"
    /\ TargetIsPublishedStep
    /\ Len(workflows) = 2
    /\ TargetWorkflow = workflows[2]
    /\ workflows[1].publishedStep # stepArg
    /\ wcalls = <<Call("publish", "-", "-", "ok")>>

\* C3 (as claimed): when the target step is the archived step of the resolved
\* workflow, the first call is the unpublish call; when that call succeeds or
\* fails with a recognized domain error, the call goes on and issues exactly one
\* change-workflow call, to the resolved workflow's archived step, as its second
\* and last call.
C3_ArchivedTargetUnpublishesThenArchives ==
    (wpc # "start" /\ TargetIsArchivedStep) =>
        /\ Len(wcalls) >= 1
        /\ wcalls[1].op = "unpublish"
        /\ wcalls[1].outcome \in {"ok", "domainError"} =>
              \/ wpc = "archive" /\ Len(wcalls) = 1
              \/ /\ WfCallEnded
                 /\ Len(wcalls) = 2
                 /\ wcalls[2].op = "changeWorkflow"
                 /\ wcalls[2].workflow = TargetWorkflow.codename
                 /\ wcalls[2].step = TargetWorkflow.archivedStep

\* C4: in the archive transition, an unpublish call failing with an error that
\* is not a recognized domain error ends the call with that error, and no
\* change-workflow call is ever issued.
C4_FatalUnpublishErrorStopsArchive ==
    \A i \in DOMAIN wcalls :
        (wcalls[i].op = "unpublish" /\ wcalls[i].outcome = "otherError") =>
            /\ wpc = "failed"
            /\ werror.kind = "unpublishFailed"
            /\ i = Len(wcalls)
            /\ \A j \in DOMAIN wcalls : wcalls[j].op # "changeWorkflow"

\* C4 witness: the unpublish call of an archive transition failed with an
\* unrecognized error
C4_Witness ==
    /\ TargetIsArchivedStep
    /\ wcalls = <<Call("unpublish", "-", "-", "otherError")>>
    /\ wpc = "failed"

\* C5 (as claimed): when the target step is a regular step of the resolved
\* workflow and the language variant is already in that step of that workflow,
\* the call issues no API call.
C5_AlreadyInRegularStepIssuesNoCall ==
    (/\ wpc # "start"
     /\ TargetIsRegularStep
     /\ variantBefore = [workflow |-> TargetWorkflow.codename, step |-> stepArg]) =>
        wcalls = <<>>

\* the codename a rejected call was wrong about, and the codenames that would
\* have been right
InvalidCodename == IF WorkflowMatches THEN stepArg ELSE wfArg

ValidAlternatives ==
    IF WorkflowMatches THEN AllStepsOf(TargetWorkflow)
    ELSE {workflows[i].codename : i \in DOMAIN workflows}

WfRejected ==
    /\ wpc = "failed"
    /\ wcalls = <<>>
    /\ werror.kind \in {"workflowNotFound", "stepNotFound", "exit"}
    /\ InvalidCodename \in Range(werror.mentions)

\* C6 (as claimed): a workflow codename matching no workflow, or a step
\* codename that is no step of the resolved workflow, makes the call fail with
\* an error that names the invalid codename and lists the valid alternatives,
\* and no API call is issued.
C6_InvalidTargetListsAlternatives ==
    (wpc # "start" /\ ~TargetIsValid) =>
        /\ WfRejected
        /\ ValidAlternatives \subseteq Range(werror.mentions)

\* C6 (amended): the call fails with an error naming the invalid codename and
\* issues no API call; the error lists the available workflows when the
\* workflow codename is the invalid one, and does not list the steps of the
\* resolved workflow when the step codename is the invalid one.
C6_InvalidTargetIsRejected ==
    (wpc # "start" /\ ~TargetIsValid) =>
        /\ WfRejected
        /\ ~WorkflowMatches => ValidAlternatives \subseteq Range(werror.mentions)
        /\ WorkflowMatches => ~(ValidAlternatives \subseteq Range(werror.mentions))

\* C6 witness: the service rejected a step codename that the resolved workflow
\* does not have
C6_Witness ==
    /\ wfImpl = "service"
    /\ WorkflowMatches
    /\ stepArg \notin AllStepsOf(TargetWorkflow)
    /\ wpc = "failed"
    /\ werror = StepNotFoundError(stepArg, TargetWorkflow)

TargetIsScheduledStep == WorkflowMatches /\ TargetWorkflow.scheduledStep = stepArg

\* C24 (as claimed): when the target step is the scheduled step of the resolved
\* workflow, the call returns normally and issues no publish, unpublish or
\* change-workflow call.
C24_ScheduledTargetIssuesNoCall ==
    (wpc # "start" /\ TargetIsScheduledStep) =>
        /\ wcalls = <<>>
        /\ wpc = "done"

\* C28 (as claimed): when the target step is a regular step of the resolved
\* workflow and the already-in-step test of the code is false, the call issues
\* exactly one call, a change-workflow call that carries the codename of the
\* resolved workflow and the workflowStepCodename argument.
C28_RegularTargetChangesStepOnce ==
    (/\ wpc # "start"
     /\ TargetIsRegularStep
     /\ ~IsAlreadyInTargetStep(TargetWorkflow, stepArg)) =>
        /\ Len(wcalls) = 1
        /\ wcalls[1].op = "changeWorkflow"
        /\ wcalls[1].workflow = TargetWorkflow.codename
        /\ wcalls[1].step = stepArg

\* another workflow of the environment has the target step codename as its
\* published, scheduled or archived step
UsedAsSpecialStepElsewhere ==
    \E i \in DOMAIN workflows :
        /\ workflows[i] # TargetWorkflow
        /\ stepArg \in {workflows[i].publishedStep, workflows[i].scheduledStep,
                        workflows[i].archivedStep}

\* C29 (as claimed): a step codename that is a regular step of the resolved
\* workflow leads to a change-workflow call, and to no other call, also when
\* another workflow has the codename as its published, scheduled or archived step.
C29_CategoryDecidedByResolvedWorkflow ==
    (/\ wpc # "start"
     /\ TargetIsRegularStep
     /\ UsedAsSpecialStepElsewhere
     /\ ~IsAlreadyInTargetStep(TargetWorkflow, stepArg)) =>
        /\ Len(wcalls) = 1
        /\ wcalls[1].op = "changeWorkflow"

-----------------------------------------------------------------------------
(* Properties of an import run                                               *)

CallsOfKind(kind) == {i \in DOMAIN calls : calls[i].kind = kind}

\* the requests of the run made for the content item with this codename
ItemCallsOf(codename, op) ==
    {i \in CallsOfKind("item") : calls[i].codename = codename /\ calls[i].op = op}

ItemCallsAnswered(codename, op, outcome) ==
    {i \in ItemCallsOf(codename, op) : calls[i].outcome = outcome}

MutationCallsOf(codename) ==
    ItemCallsOf(codename, "addContentItem") \cup ItemCallsOf(codename, "upsertContentItem")

\* importContentItemAsync has returned for the k-th regular item
ItemCompleted(k) == k \in DOMAIN RegularItems /\ k < itemIndex

\* importContentItemsAsync has returned the prepared items
ContentItemsPrepared ==
    /\ itemIndex > Len(RegularItems)
    /\ Len(preparedItems) = Len(RegularItems)

C7_CreateExactlyOnNotFound ==
    \A k \in DOMAIN RegularItems :
        LET item == RegularItems[k]
            views == ItemCallsOf(item.codename, "viewContentItem")
            creates == ItemCallsOf(item.codename, "addContentItem")
            upserts == ItemCallsOf(item.codename, "upsertContentItem")
            awaitsCreate == phase = "items" /\ itemIndex = k /\ itemPc = "create"
        IN  /\ Cardinality(views) <= 1
            /\ \A m \in creates \cup upserts : \E v \in views : v < m
            /\ Cardinality(creates) <= 1
            /\ creates # {} => ItemCallsAnswered(item.codename, "viewContentItem", "404") # {}
            /\ ItemCallsAnswered(item.codename, "viewContentItem", "404") # {}
                  => creates # {} \/ awaitsCreate
            /\ \A c \in creates :
                  /\ calls[c].name = item.name
                  /\ calls[c].type = item.type
                  /\ calls[c].codename = item.codename
                  /\ calls[c].collection = item.collection
            /\ ItemCallsAnswered(item.codename, "viewContentItem", "error") # {}
                  => /\ creates = {} /\ upserts = {}
                     /\ phase = "failed"
                     /\ runError = ApiError("viewContentItem")
                     /\ \A p \in DOMAIN preparedItems : preparedItems[p].codename # item.codename
            /\ creates # {} => upserts = {}

C7_Witness ==
    \E k \in DOMAIN RegularItems :
        /\ ItemCompleted(k)
        /\ ItemCallsAnswered(RegularItems[k].codename, "viewContentItem", "404") # {}
        /\ ItemCallsAnswered(RegularItems[k].codename, "addContentItem", "ok") # {}

\* the answer of the view request for an item found in the target environment
ViewedItem(codename) ==
    calls[CHOOSE i \in ItemCallsAnswered(codename, "viewContentItem", "ok") : TRUE]

FoundInTarget(k) ==
    /\ ItemCompleted(k)
    /\ ItemCallsAnswered(RegularItems[k].codename, "viewContentItem", "ok") # {}

\* C8 (as stated): an item found in the target environment gets exactly one upsert
\* if and only if its incoming name or its incoming collection differs from the
\* name or the collection of the target item, and no mutation call otherwise.
C8_UpsertIffNameOrCollectionDiffers ==
    \A k \in DOMAIN RegularItems :
        FoundInTarget(k) =>
            LET item == RegularItems[k]
                viewed == ViewedItem(item.codename)
            IN  IF item.name # viewed.name \/ item.collection # viewed.collection
                THEN /\ Cardinality(ItemCallsOf(item.codename, "upsertContentItem")) = 1
                     /\ ItemCallsOf(item.codename, "addContentItem") = {}
                ELSE MutationCallsOf(item.codename) = {}

\* C8 (amended): an item found in the target environment gets exactly one upsert,
\* carrying the incoming name and collection, if and only if its incoming name
\* differs from the name of the target item; the collection of the target item
\* is not looked at. An incoming collection the target environment does not have
\* ends the run before any upsert.
C8_UpsertIffNameDiffers ==
    \A k \in DOMAIN RegularItems :
        LET item == RegularItems[k]
            upserts == ItemCallsOf(item.codename, "upsertContentItem")
        IN  /\ FoundInTarget(k) =>
                  IF item.name # ViewedItem(item.codename).name
                  THEN /\ Cardinality(upserts) = 1
                       /\ \A u \in upserts : /\ calls[u].name = item.name
                                             /\ calls[u].collection = item.collection
                       /\ ItemCallsOf(item.codename, "addContentItem") = {}
                  ELSE MutationCallsOf(item.codename) = {}
            /\ (/\ ItemCallsAnswered(item.codename, "viewContentItem", "ok") # {}
                /\ FindCollection(item, TargetCollections) = 0)
                  => /\ upserts = {}
                     /\ phase = "failed"
                     /\ runError.kind = "exit"

C8_Witness ==
    \E k \in DOMAIN RegularItems :
        /\ FoundInTarget(k)
        /\ RegularItems[k].name # ViewedItem(RegularItems[k].codename).name
        /\ ItemCallsAnswered(RegularItems[k].codename, "upsertContentItem", "ok") # {}

\* C9: a second run with the same input on the same target environment issues no
\* create and no upsert of a content item, every regular item being viewed and
\* skipped, and shouldUpdateAsset is false for every asset whose copy in the
\* target environment was produced from that migration asset.
C9_SecondRunChangesNothing ==
    /\ run >= 2 =>
          /\ \A i \in CallsOfKind("item") : calls[i].op = "viewContentItem"
          /\ \A k \in DOMAIN RegularItems :
                ItemCompleted(k) =>
                    ItemCallsAnswered(RegularItems[k].codename, "viewContentItem", "ok") # {}
    /\ \A i \in DOMAIN sourceData.assets :
          LET asset == sourceData.assets[i]
          IN  targetAssets[asset.codename] = TargetCopy(asset)
                 => ~ShouldUpdateAsset(asset, targetAssets[asset.codename],
                                       TargetCollections, TargetLanguages)

C9_Witness ==
    /\ run >= 2
    /\ phase = "done"
    /\ Len(RegularItems) = MaxItems
    /\ \A k \in DOMAIN RegularItems : ItemCompleted(k)
    /\ \E i \in DOMAIN sourceData.assets :
          targetAssets[sourceData.assets[i].codename] = TargetCopy(sourceData.assets[i])

ItemOperations == {"viewContentItem", "addContentItem", "upsertContentItem"}

\* C10: with skipFailedItems set, a rejected view, create or upsert request of one
\* content item does not end the run: the item is skipped and the loop goes on.
C10_FailedItemIsSkipped ==
    config.skipFailedItems =>
        ~(/\ phase = "failed"
          /\ runError.kind = "apiError"
          /\ \E op \in ItemOperations : runError = ApiError(op))

\* the incoming items the run has categorized as components
ComponentCodenames ==
    {dataToImport.items[i].codename :
        i \in {j \in DOMAIN dataToImport.items : IsComponentItem(dataToImport.items[j])}}

\* C11: no view, create or upsert request is issued for an incoming item that is
\* categorized as a component, and the prepared items hold no entry for one.
C11_ComponentsAreNeverImported ==
    /\ \A i \in CallsOfKind("item") : calls[i].codename \notin ComponentCodenames
    /\ \A p \in DOMAIN preparedItems : preparedItems[p].codename \notin ComponentCodenames
    /\ \A p \in DOMAIN importedData : importedData[p].original \notin ComponentCodenames

C11_Witness ==
    /\ ComponentCodenames # {}
    /\ phase = "variants"
    /\ ContentItemsPrepared
    /\ Len(preparedItems) > 0

-----------------------------------------------------------------------------
(* Properties of the asset decision                                          *)

\* what a call of the function returned
ValuesReturned(fn) == {returned[i].value : i \in {j \in DOMAIN returned : returned[j].fn = fn}}

\* the four things the decision looks at, compared field by field
SameCollection ==
    assetArg.collection =
        (IF \E i \in DOMAIN TargetCollections : TargetCollections[i].id = targetArg.collectionId
         THEN (CHOOSE c \in Range(TargetCollections) : c.id = targetArg.collectionId).codename
         ELSE Undefined)

SameTitle ==
    \/ assetArg.title = targetArg.title
    \/ assetArg.title \in {"", Undefined} /\ targetArg.title \in {"", Undefined}

SameDescriptions ==
    LET given == OrEmpty(assetArg.descriptions)
        stored == targetArg.descriptions
        Text(description) == IF description = "" THEN Undefined ELSE description
    IN  /\ Len(given) = Len(stored)
        /\ \A i \in DOMAIN given :
              /\ \E l \in Range(TargetLanguages) :
                    l.id = stored[i].languageId /\ l.codename = given[i].language
              /\ Text(given[i].description) = Text(stored[i].description)

SameBinary ==
    /\ assetArg.binaryData = targetArg.size
    /\ assetArg.filename = targetArg.fileName

DifferingFields ==
    {f \in {"collection", "descriptions", "title", "binary"} :
        \/ f = "collection" /\ ~SameCollection
        \/ f = "descriptions" /\ ~SameDescriptions
        \/ f = "title" /\ ~SameTitle
        \/ f = "binary" /\ ~SameBinary}

\* C12: shouldUpdateAsset returns false when collection, descriptions, title and
\* binary identity (byte size and filename) are all identical, and true when
\* exactly one of the four differs.
C12_UpdateIffSomeFieldDiffers ==
    \A value \in ValuesReturned("shouldUpdateAsset") :
        /\ DifferingFields = {} => value = FALSE
        /\ Cardinality(DifferingFields) = 1 => value = TRUE

C12_Witness ==
    /\ DifferingFields = {"title"}
    /\ ValuesReturned("shouldUpdateAsset") = {TRUE}

\* the (language codename, description) pairs of the two assets, an empty
\* description counting as none
GivenDescriptionPairs ==
    {<<d.language, IF d.description = "" THEN Undefined ELSE d.description>> :
        d \in Range(OrEmpty(assetArg.descriptions))}

StoredDescriptionPairs ==
    {<<(CHOOSE l \in Range(TargetLanguages) : l.id = d.languageId).codename,
       IF d.description = "" THEN Undefined ELSE d.description>> :
        d \in Range(targetArg.descriptions)}

\* C25 (as claimed): shouldUpdateAsset returns false when the two assets carry
\* the same (language codename, description) pairs, in whatever order, and
\* collection, title and binary are identical; an empty and an absent
\* description are equal.
C25_DescriptionsComparedAsSet ==
    \A value \in ValuesReturned("shouldUpdateAsset") :
        (/\ GivenDescriptionPairs = StoredDescriptionPairs
         /\ Len(OrEmpty(assetArg.descriptions)) = Len(targetArg.descriptions)
         /\ SameCollection
         /\ SameTitle
         /\ SameBinary) => value = FALSE

\* the inputs that agree with the current one on source size, target size,
\* source filename and target filename
SameBinaryInputs ==
    {pair \in MigrationAssetArgs \X TargetAssetArgs :
        /\ pair[1].binaryData = assetArg.binaryData
        /\ pair[1].filename = assetArg.filename
        /\ pair[2].size = targetArg.size
        /\ pair[2].fileName = targetArg.fileName}

\* C13: shouldReplaceBinaryFile is true exactly when byte size or filename
\* differs, gives the same result for every input with the same sizes and
\* filenames whatever its title, collection and descriptions, and whenever it is
\* true shouldUpdateAsset is true as well.
C13_ReplaceDependsOnBinaryOnly ==
    \A value \in ValuesReturned("shouldReplaceBinaryFile") :
        /\ value = ~SameBinary
        /\ \A pair \in SameBinaryInputs : ShouldReplaceBinaryFile(pair[1], pair[2]) = value
        /\ value = TRUE =>
              /\ ShouldUpdateAsset(assetArg, targetArg, TargetCollections, TargetLanguages)
              /\ FALSE \notin ValuesReturned("shouldUpdateAsset")

C13_Witness ==
    /\ DifferingFields = {"binary"}
    /\ assetArg.binaryData = targetArg.size
    /\ ValuesReturned("shouldReplaceBinaryFile") = {TRUE}
    /\ ValuesReturned("shouldUpdateAsset") = {TRUE}

-----------------------------------------------------------------------------
(* Properties of the element transforms                                      *)

TransformDone(type) == transformType = type /\ tpc = "done"

\* C14: the modular_content import transform returns, for every referenced
\* codename, one reference in input order: the codename when the import context
\* holds the item as existing in the target environment, the external id of that
\* codename otherwise, whichever items the run has imported before.
C14_ForwardReferencesResolve ==
    TransformDone("import.modular_content") =>
        LET input == IF elementValue.kind = "array" THEN elementValue.array ELSE <<>>
            output == transformed.value.array
        IN  /\ transformed.status = "returned"
            /\ Len(output) = Len(input)
            /\ \A i \in DOMAIN input :
                  IF importContext.itemStates[input[i]].item.exists
                  THEN output[i] = [by |-> "codename", ref |-> input[i]]
                  ELSE output[i] = [by |-> "external_id", ref |-> ExternalIdToUse(input[i])]

C14_Witness ==
    /\ TransformDone("import.modular_content")
    /\ Len(transformed.value.array) = 2
    /\ transformed.value.array[1].by = "external_id"
    /\ transformed.value.array[2].by = "codename"
    /\ elementValue.array[1] \in importedSoFar

\* the component object tags of a rich text value
ComponentTagsOf(value) ==
    {i \in DOMAIN RichTextHtml(value) :
        /\ RichTextHtml(value)[i].object
        /\ IsComponentTag(RichTextHtml(value)[i].text)}

\* the id the rule of convertComponentCodenameToId gives a codename
ExpectedComponentId(codename) ==
    IF Validate(ReplaceUnderscores(codename)) THEN ReplaceUnderscores(codename)
    ELSE UuidByString(codename)

\* the id the imported rich text carries in the marker that stands for the tag
MarkerId(i) == AttributeValue(RichTextHtml(transformed.value)[i].text, <<"data", "-", "id">>)

\* the id of the contract built for the component tag at a position of the value
ContractId(i) ==
    transformed.components[Cardinality({j \in ComponentTagsOf(elementValue) : j <= i})].id

\* C15: the component id is the normalized codename when that is a valid UUID
\* and the hash UUID of the codename otherwise, and the marker written into the
\* rich text carries the id of the component contract of the same codename
C15_MarkerCarriesContractId ==
    TransformDone("import.rich_text") =>
        /\ Len(transformed.components) = Cardinality(ComponentTagsOf(elementValue))
        /\ \A i \in ComponentTagsOf(elementValue) :
              LET codename == DataCodenameMatch(RichTextHtml(elementValue)[i].text)
              IN  /\ ContractId(i) = ExpectedComponentId(codename)
                  /\ MarkerId(i) = ContractId(i)

\* C16: the number export transform returns 0 for 0 and undefined for null and
\* undefined; the import transform returns the number for a number, 0 included,
\* and null only for an absent value; a number exported and then imported
\* arrives unchanged
C16_NumberSurvivesRoundTrip ==
    /\ TransformDone("export.number") /\ elementValue.kind \in {"undefined", "null"}
           => transformed = TransformReturns(NoValue)
    /\ TransformDone("export.number") /\ elementValue.kind = "number"
           => transformed = TransformReturns(elementValue)
    /\ TransformDone("import.number") /\ elementValue.kind = "number"
           => transformed = TransformReturns(elementValue)
    /\ TransformDone("import.number")
           => (transformed.value = NullValue <=> elementValue = NoValue)
    /\ TransformDone("roundtrip.number") /\ elementValue.kind = "number"
           => transformed = TransformReturns(elementValue)

\* the imported assets whose original codename is the codename, whatever the case
ImportedAs(codename) ==
    {s \in Range(importContext.importedAssets) :
        s.original.codename # Undefined /\ Lower(s.original.codename) = Lower(codename)}

\* C17: the asset import transform always returns; its references are, in input
\* order, the target ids of the codenames that match an imported asset without
\* regard to case, and every other codename gives one warning and no reference
C17_UnresolvedAssetsAreSkipped ==
    TransformDone("import.asset") =>
        LET input == IF elementValue.kind = "array" THEN elementValue.array ELSE <<>>
            resolved == SelectSeq(input, LAMBDA c : ImportedAs(c) # {})
            unresolved == SelectSeq(input, LAMBDA c : ImportedAs(c) = {})
            output == transformed.value.array
        IN  /\ transformed.status = "returned"
            /\ Len(output) = Len(resolved)
            /\ \A i \in DOMAIN resolved :
                  /\ output[i].by = "id"
                  /\ output[i].ref \in {s.imported.id : s \in ImportedAs(resolved[i])}
            /\ warnings = unresolved

C17_Witness ==
    /\ TransformDone("import.asset")
    /\ elementValue = ArrayValue(<<"banner", "logo">>)
    /\ transformed.value.array = <<ReferenceBy("id", "asset_2")>>
    /\ warnings = <<"banner">>

\* the state table an export transform of references looks its ids up in
StatesLookedUp ==
    IF transformType = "export.asset" THEN exportContext.assetStates
    ELSE exportContext.itemStates

\* the ids the state table holds an existing item or asset for
ExistingInSource == {s.id : s \in {t \in Range(StatesLookedUp) : t.state = "exists"}}

\* C18: the asset, modular_content and subpages export transforms throw an
\* error that names the id, and return no list, when some referenced id has no
\* existing item or asset in the state table; otherwise they return the
\* codenames in input order, one per reference
C18_MissingReferenceFailsExport ==
    \A type \in ReferenceExportTypes :
        TransformDone(type) /\ elementValue.kind = "array" =>
            LET input == elementValue.array
                unresolved == {i \in DOMAIN input : input[i] \notin ExistingInSource}
            IN  IF unresolved # {}
                THEN /\ transformed.status = "threw"
                     /\ transformed.value = NoValue
                     /\ \E i \in unresolved : transformed.mentions = <<input[i]>>
                ELSE /\ transformed.status = "returned"
                     /\ Len(transformed.value.array) = Len(input)
                     /\ \A i \in DOMAIN input :
                           transformed.value.array[i]
                              = ReferenceBy("codename", SourceCodename(input[i]))

C18_Witness ==
    /\ TransformDone("export.subpages")
    /\ elementValue = ArrayValue(<<"id_b", "id_a">>)
    /\ "id_b" \in ExistingInSource
    /\ transformed = TransformThrows(<<"id_a">>)

-----------------------------------------------------------------------------
(* Properties of the export context *)

\* the source environment returned the entity to a view request
SourceReturned(type, id) == ViewRequest(type, id, "found") \in Range(viewRequests)

\* the one state an id that was checked has in a state table
HasItsOneState(states, type, id) ==
    /\ Cardinality({i \in DOMAIN states : states[i].id = id}) = 1
    /\ GetStateInSourceEnvironment(states, id)
          = StateInSourceEnvironment(id, IF SourceReturned(type, id) THEN "exists"
                                         ELSE "doesNotExists")

\* C19: in the export context that getExportContextAsync returns, every
\* referenced item id and every prepared item id has exactly one item state and
\* every referenced asset id exactly one asset state: 'exists' with the entity
\* when the source returned it, 'doesNotExists' without entity otherwise; the
\* lookup of any other id throws
C19_EveryCheckedIdHasOneState ==
    epc = "returned" =>
        \A id \in ReferencedIds \cup ReferencedAssetIds :
            /\ IF id \in Range(referencedData.itemIds) \cup Range(preparedExportItems)
               THEN HasItsOneState(itemStates, "contentItem", id)
               ELSE GetStateInSourceEnvironment(itemStates, id) = LookupThrows
            /\ IF id \in Range(referencedData.assetIds)
               THEN HasItsOneState(assetStates, "asset", id)
               ELSE GetStateInSourceEnvironment(assetStates, id) = LookupThrows

C19_Witness ==
    /\ epc = "returned"
    /\ preparedExportItems = <<"id_a", "id_a">>
    /\ referencedData = [itemIds |-> <<"id_b", "id_a">>, assetIds |-> <<"asset_x">>]
    /\ GetStateInSourceEnvironment(itemStates, "id_a").state = "exists"
    /\ GetStateInSourceEnvironment(itemStates, "id_b").state = "doesNotExists"
    /\ GetStateInSourceEnvironment(assetStates, "asset_x").state = "exists"

\* the view requests that were answered with an error other than 404
RequestsRethrown == {i \in DOMAIN viewRequests : viewRequests[i].outcome = "error"}

\* the ids of a list that were viewed after the request at a position
ViewedAfter(position) == {viewRequests[i].id : i \in {j \in DOMAIN viewRequests : j > position}}

\* C30: a 404 on the view of one id is no failure: the id gets the state
\* 'doesNotExists' and the ids after it are still viewed and get their state;
\* any other error ends getExportContextAsync at that request, and no export
\* context is returned.
C30_OnlyNotFoundIsTolerated ==
    /\ epc = "failed" <=> RequestsRethrown # {}
    /\ \A i \in RequestsRethrown :
          /\ i = Len(viewRequests)
          /\ assetStates = <<>>
    /\ epc = "returned" =>
          /\ Range(ItemIdsToCheckInTargetEnv) = {r.id : r \in Range(RequestsOf("contentItem"))}
          /\ Range(AssetIdsToCheckInTargetEnv) = {r.id : r \in Range(RequestsOf("asset"))}
          /\ \A i \in DOMAIN viewRequests :
                viewRequests[i].outcome = "notFound" =>
                    GetStateInSourceEnvironment(
                        IF viewRequests[i].type = "contentItem" THEN itemStates
                        ELSE assetStates, viewRequests[i].id).state = "doesNotExists"

C30_Witness ==
    /\ epc = "returned"
    /\ Len(viewRequests) > 2
    /\ viewRequests[1].outcome = "notFound"
    /\ viewRequests[1].type = "contentItem"
    /\ GetStateInSourceEnvironment(itemStates, viewRequests[1].id).state = "doesNotExists"
    /\ GetStateInSourceEnvironment(itemStates, viewRequests[2].id).state = "exists"
    /\ \E i \in DOMAIN viewRequests :
          viewRequests[i].type = "asset" /\ viewRequests[i].outcome = "notFound"

-----------------------------------------------------------------------------
(* Properties of the export of elements *)

\* the codenames of the content type in ascending order
CodenamesAscending ==
    SelectSeq(ElementCodenamesInOrder,
              LAMBDA c : \E i \in DOMAIN contentTypeElements : contentTypeElements[i].codename = c)

\* the type elements the variant holds no element for
WithoutItemElement ==
    {t \in Range(contentTypeElements) :
        \A i \in DOMAIN variantElements : variantElements[i].element.id # t.id}

\* C20: getMigrationElements fails when the variant has no element for some
\* element of the content type; otherwise it returns exactly one entry per
\* element of the type, inserted in ascending order of the codenames, whatever
\* the order of the elements of the type and of the variant
C20_ElementsInCodenameOrder ==
    mpc = "done" =>
        IF WithoutItemElement # {}
        THEN /\ migrationElements.status = "threw"
             /\ \E t \in WithoutItemElement : migrationElements.mentions = <<t.codename>>
        ELSE /\ migrationElements.status = "returned"
             /\ Len(migrationElements.model) = Len(contentTypeElements)
             /\ [i \in DOMAIN migrationElements.model |-> migrationElements.model[i].key]
                   = CodenamesAscending

C20_Witness ==
    /\ mpc = "done"
    /\ contentTypeElements
          = <<TypeElement("e_title", "title"), TypeElement("e_a_teaser", "a_teaser"),
              TypeElement("e_a1_teaser", "a1_teaser")>>
    /\ migrationElements.status = "returned"
    /\ migrationElements.model[1].key = "a1_teaser"
    /\ migrationElements.model[3].key = "title"
    /\ variantElements[1].element.id = "e_a_teaser"

-----------------------------------------------------------------------------
(* Properties of filterDataToImport                                          *)

\* the entities of an array a canImport predicate answers true for, in the
\* order of the array; the whole array when the predicate is not configured
PassedOn(predicate, source) ==
    IF predicate.configured
    THEN SelectSeq(source, LAMBDA entity : entity.codename \in predicate.accepts)
    ELSE source

\* C22: the import works on exactly the assets and the items their canImport
\* predicate answers true for, in the order of the input, on the whole array
\* when the predicate is not configured, and no request is made for an asset
\* or an item that was not passed on.
C22_ExactlyTheAcceptedAreImported ==
    phase # "filter" =>
        /\ dataToImport.assets = PassedOn(config.canImportAsset, sourceData.assets)
        /\ dataToImport.items = PassedOn(config.canImportContentItem, sourceData.items)
        /\ \A i \in CallsOfKind("asset") :
              calls[i].codename \in CodenamesOf(dataToImport.assets)
        /\ \A i \in CallsOfKind("item") \cup CallsOfKind("variant") :
              calls[i].codename \in CodenamesOf(dataToImport.items)

C22_Witness ==
    /\ phase = "done"
    /\ config.canImportContentItem.configured
    /\ Len(sourceData.items) = MaxItems
    /\ Len(dataToImport.items) = 1
    /\ dataToImport.items[1] = sourceData.items[2]
    /\ CallsOfKind("item") # {}

-----------------------------------------------------------------------------
(* Properties of the export of one element value *)

\* what the export transform of the element type does with the raw value
TransformOfStoredElement ==
    ExportTransform(storeTypeElement, storeExportElement.value, storeContext)

\* C21: when the export transform of the element throws, getValueToStoreFromElement
\* throws an error that carries the codename and the type of the element and the
\* message of the transform's error; when the raw value cannot be serialized to
\* JSON the error is thrown all the same, with 'n/a' in place of the value.
C21_TransformErrorIsWrapped ==
    (spc = "done" /\ TransformOfStoredElement.status = "threw") =>
        /\ valueToStore.status = "threw"
        /\ valueToStore.codename = storeTypeElement.codename
        /\ valueToStore.type = storeTypeElement.type
        /\ valueToStore.message = TransformOfStoredElement.mentions
        /\ ~storeExportElement.stringifies => valueToStore.jsonValue = "n/a"

C21_Witness ==
    /\ spc = "done"
    /\ storeTypeElement = StoredTypeElement("related", "modular_content", Undefined)
    /\ storeExportElement = [value |-> ArrayValue(<<"id_a", "id_b">>), stringifies |-> FALSE]
    /\ valueToStore = FailedToMapValue("related", "modular_content", "n/a", <<"id_b">>)

-----------------------------------------------------------------------------
(* Properties of the links of a rich text value on import *)

\* the link tags of the value that is transformed, and what they have become
LinkPositions ==
    IF elementValue.kind # "html" THEN {}
    ELSE {i \in DOMAIN elementValue.html : IsLinkTag(elementValue.html[i].text)}

LinkedCodename(i) == JoinTokens(LinkCodenameMatch(elementValue.html[i].text))

LinkResolves(i) ==
    \/ LinkedCodename(i) \in importedSoFar
    \/ importContext.itemStates[LinkedCodename(i)].item.exists

ProcessedLink(i) == transformed.value.html[i].text

\* C23 (as claimed): a link whose codename is neither the codename of an item
\* imported in this run nor of an item of the target environment is logged as
\* a warning and its reference is no longer in the processed markup, and the
\* transform returns; a link that resolves carries data-item-id with the id of
\* the item, the one imported in this run first, and no codename attribute.
C23_UnresolvedLinkIsDropped ==
    (tpc = "done" /\ transformType = "import.rich_text") =>
        /\ transformed.status = "returned"
        /\ \A i \in LinkPositions :
              IF LinkResolves(i)
              THEN /\ AttributeValue(ProcessedLink(i), <<"data", "-", "item", "-", "id">>)
                         = <<"id_" \o LinkedCodename(i)>>
                   /\ ~Includes(ProcessedLink(i), LinkCodenameAttributeName)
              ELSE /\ LinkedCodename(i) \in Range(warnings)
                   /\ ~Includes(ProcessedLink(i), LinkCodenameAttributeName)
                   /\ ~Includes(ProcessedLink(i), LinkCodenameMatch(elementValue.html[i].text))

\* the term with the id among the terms and the terms below them, at any depth
RECURSIVE TermWithId(_, _)
TermWithId(termId, terms) ==
    IF terms = <<>> THEN NoTaxonomy
    ELSE IF terms[1].id = termId THEN terms[1]
    ELSE IF TermWithId(termId, terms[1].terms) # NoTaxonomy
    THEN TermWithId(termId, terms[1].terms)
    ELSE TermWithId(termId, Tail(terms))

\* the taxonomy group of the element that is exported
TaxonomyGroupOfElement ==
    storeContext.taxonomies[FindTaxonomyGroup(storeContext.taxonomies,
                                              storeTypeElement.taxonomyGroup)]

\* a taxonomy element of an existing group with an array of term ids is exported
TaxonomyTermsExported ==
    /\ spc = "done"
    /\ storeTypeElement.type = "taxonomy"
    /\ FindTaxonomyGroup(storeContext.taxonomies, storeTypeElement.taxonomyGroup) # 0
    /\ storeExportElement.value.kind = "array"
    /\ storeExportElement.value.array # <<>>

\* C26 (as claimed): the taxonomy export transform maps every term id of the
\* value to the codename of the term of the group that has this id, at any
\* depth, and fails when some id is the id of no term of the group.
C26_TermIdMapsToItsOwnCodename ==
    TaxonomyTermsExported =>
        LET ids == storeExportElement.value.array
            terms == TaxonomyGroupOfElement.terms
        IN  IF \A i \in DOMAIN ids : TermWithId(ids[i], terms) # NoTaxonomy
            THEN /\ valueToStore.status = "returned"
                 /\ valueToStore.value =
                       ArrayValue([i \in DOMAIN ids |->
                                      ReferenceBy("codename", TermWithId(ids[i], terms).codename)])
            ELSE valueToStore.status = "threw"

-----------------------------------------------------------------------------
(* Properties of the flattening of a content type *)

\* elements with a codename and an id that are no guidelines
KeptElements(elements) ==
    SelectSeq(elements, LAMBDA e : /\ e.codename \notin {Undefined, ""}
                                   /\ e.id \notin {Undefined, ""}
                                   /\ e.type # "guidelines")

\* the snippet a snippet element refers to
SnippetsOf(element) ==
    SelectSeq(contentTypeSnippets, LAMBDA s : Lower(s.id) = Lower(element.snippet))

\* an element with its own definition
WithOwnDefinition(elements) ==
    [i \in DOMAIN elements |->
        FlattenedElement(elements[i].codename, elements[i].id, elements[i].type, elements[i])]

\* the content type with every snippet element replaced by the elements of its snippet
RECURSIVE ExpandedInPlace(_)
ExpandedInPlace(elements) ==
    IF elements = <<>> THEN <<>>
    ELSE (IF elements[1].type = "snippet"
          THEN WithOwnDefinition(KeptElements(SnippetsOf(elements[1])[1].elements))
          ELSE WithOwnDefinition(<<elements[1]>>))
            \o ExpandedInPlace(Tail(elements))

SnippetIsMissing ==
    \E i \in DOMAIN KeptElements(typeElementsArg) :
        /\ KeptElements(typeElementsArg)[i].type = "snippet"
        /\ SnippetsOf(KeptElements(typeElementsArg)[i]) = <<>>

\* C27 (as claimed): getContentTypeElements returns, in the order of the
\* content type, one flattened element per element that has a codename and an
\* id and is no guidelines element, a snippet element being replaced in place
\* by the elements of its snippet; every flattened element carries the
\* definition of that very element; a snippet element without snippet is fatal.
C27_FlattenedElementsCarryOwnDefinition ==
    fpc = "done" =>
        IF SnippetIsMissing THEN flattened.status = "exited"
        ELSE /\ flattened.status = "returned"
             /\ flattened.elements = ExpandedInPlace(KeptElements(typeElementsArg))

=============================================================================
